---------------------------- MODULE Spec2Model ----------------------------
(***************************************************************************)
(* A model of clank: the path mapper (src/src/Mapper.ts), the link         *)
(* reconciler (src/src/commands/Link.ts), unlink and the checks of         *)
(* src/src/commands/Check.ts, over a file system of real files,            *)
(* directories and symbolic links.  Paths are strings and are handled      *)
(* character by character, as the code handles them.                       *)
(***************************************************************************)
EXTENDS Integers, Sequences, FiniteSets, TLC

VARIABLES
    ctx,      \* MapperContext: overlayRoot, targetRoot, projectName, worktreeName, isWorktree
    query,    \* the last call of a pure mapper function and its result
    fs,       \* the file system: path |-> [kind, dest, data]
    tracked,  \* the paths in the index of the target's git repository
    exclude,  \* the entries of the clank section of .git/info/exclude
    hist,     \* the commands run so far, oldest first: [cmd, ok]
    created,  \* the link paths the last link run created
    report    \* what the last check run reported

vars == <<ctx, query, fs, tracked, exclude, hist, created, report>>

(***************************************************************************)
(* Strings (JavaScript String methods)                                     *)
(***************************************************************************)

Min(S) == CHOOSE x \in S : \A y \in S : x <= y

Max(S) == CHOOSE x \in S : \A y \in S : x >= y

\* s.startsWith(p)
StartsWith(s, p) == Len(s) >= Len(p) /\ SubSeq(s, 1, Len(p)) = p

\* s.endsWith(p)
EndsWith(s, p) == Len(s) >= Len(p) /\ SubSeq(s, Len(s) - Len(p) + 1, Len(s)) = p

\* s.indexOf(sub): zero-based index of the first occurrence, -1 if none
IndexOf(s, sub) ==
    LET I == {i \in 1..(Len(s) - Len(sub) + 1) : SubSeq(s, i, i + Len(sub) - 1) = sub}
    IN  IF I = {} THEN -1 ELSE Min(I) - 1

\* s.lastIndexOf(sub)
LastIndexOf(s, sub) ==
    LET I == {i \in 1..(Len(s) - Len(sub) + 1) : SubSeq(s, i, i + Len(sub) - 1) = sub}
    IN  IF I = {} THEN -1 ELSE Max(I) - 1

\* s.includes(sub)
Includes(s, sub) == IndexOf(s, sub) # -1

\* s.slice(from) for from >= 0
Slice(s, from) == SubSeq(s, from + 1, Len(s))

\* s.slice(0, to) for to >= 0
SliceTo(s, to) == SubSeq(s, 1, to)

\* s.split("/")
RECURSIVE Split(_)
Split(s) ==
    LET at(i) == IF i = -1 THEN <<s>> ELSE <<SliceTo(s, i)>> \o Split(Slice(s, i + 1))
    IN  at(IndexOf(s, "/"))

\* parts.join("/")
RECURSIVE JoinParts(_)
JoinParts(parts) ==
    IF Len(parts) = 0 THEN ""
    ELSE IF Len(parts) = 1 THEN parts[1]
    ELSE parts[1] \o "/" \o JoinParts(Tail(parts))

(***************************************************************************)
(* node:path (posix)                                                       *)
(***************************************************************************)

\* resolve "." and ".." and empty segments; above tells whether ".." may
\* remain at the front (relative paths) or is dropped (absolute paths)
RECURSIVE NormalizeParts(_, _, _)
NormalizeParts(parts, acc, above) ==
    IF Len(parts) = 0 THEN acc
    ELSE LET p == parts[1]
             rest == Tail(parts)
         IN  IF p = "" \/ p = "." THEN NormalizeParts(rest, acc, above)
             ELSE IF p = ".."
                  THEN IF Len(acc) > 0 /\ acc[Len(acc)] # ".."
                       THEN NormalizeParts(rest, SubSeq(acc, 1, Len(acc) - 1), above)
                       ELSE IF above THEN NormalizeParts(rest, Append(acc, ".."), above)
                            ELSE NormalizeParts(rest, acc, above)
                  ELSE NormalizeParts(rest, Append(acc, p), above)

\* path.normalize
Normalize(p) ==
    LET result(isAbs, trailing, body) ==
            IF isAbs
            THEN IF body = "" THEN "/"
                 ELSE "/" \o body \o (IF trailing THEN "/" ELSE "")
            ELSE IF body = "" THEN (IF trailing THEN "./" ELSE ".")
                 ELSE body \o (IF trailing THEN "/" ELSE "")
    IN  IF p = "" THEN "."
        ELSE result(StartsWith(p, "/"), EndsWith(p, "/"),
                    JoinParts(NormalizeParts(Split(p), <<>>, ~StartsWith(p, "/"))))

\* path.join of two segments: empty segments are ignored
Join(a, b) ==
    Normalize(IF a = "" THEN b ELSE IF b = "" THEN a ELSE a \o "/" \o b)

Join3(a, b, c) == Join(Join(a, b), c)

Join4(a, b, c, d) == Join(Join3(a, b, c), d)

\* process.cwd(), against which path.relative resolves relative arguments
ProcessCwd == "/t"

\* the components of path.resolve(p)
ResolveParts(p) ==
    NormalizeParts(Split(IF StartsWith(p, "/") THEN p ELSE ProcessCwd \o "/" \o p), <<>>, FALSE)

RECURSIVE CommonLen(_, _)
CommonLen(a, b) ==
    IF Len(a) = 0 \/ Len(b) = 0 \/ a[1] # b[1] THEN 0
    ELSE 1 + CommonLen(Tail(a), Tail(b))

\* path.relative(from, to)
Relative(from, to) ==
    LET tail(f, t, c) == JoinParts([i \in 1..(Len(f) - c) |-> ".."] \o SubSeq(t, c + 1, Len(t)))
        between(f, t) == tail(f, t, CommonLen(f, t))
    IN  between(ResolveParts(from), ResolveParts(to))

RECURSIVE StripTrailingSlashes(_)
StripTrailingSlashes(p) ==
    IF Len(p) > 1 /\ EndsWith(p, "/") THEN StripTrailingSlashes(SliceTo(p, Len(p) - 1))
    ELSE p

\* path.basename
Basename(p) ==
    LET at(q, i) == IF q = "/" THEN "" ELSE IF i = -1 THEN q ELSE Slice(q, i + 1)
        of(q) == at(q, LastIndexOf(q, "/"))
    IN  of(StripTrailingSlashes(p))

\* path.dirname
Dirname(p) ==
    LET at(q, i) == IF i = -1 THEN "."
                    ELSE IF i = 0 THEN "/"
                    ELSE StripTrailingSlashes(SliceTo(q, i))
        of(q) == at(q, LastIndexOf(q, "/"))
    IN  of(StripTrailingSlashes(p))

(***************************************************************************)
(* AgentFiles.ts                                                           *)
(***************************************************************************)

agentDirNames == <<"claude", "gemini">>

managedAgentDirs == [i \in 1..Len(agentDirNames) |-> "." \o agentDirNames[i]]

agentFiles == <<"AGENTS.md", "CLAUDE.md", "GEMINI.md">>

managedDirs == <<"clank", "prompts">> \o agentDirNames

targetManagedDirs == <<"clank">> \o managedAgentDirs

Range(seq) == {seq[i] : i \in 1..Len(seq)}

\* the first index of seq whose element satisfies Test, 0 if none
FirstIndex(seq, Test(_)) ==
    LET first(I) == IF I = {} THEN 0 ELSE Min(I)
    IN  first({i \in 1..Len(seq) : Test(seq[i])})

(***************************************************************************)
(* Mapper.ts                                                               *)
(***************************************************************************)

Scopes == {"global", "project", "worktree"}

\* overlayToTarget's null
NullMapping == [targetPath |-> "", scope |-> "null"]

IsNull(m) == m.scope = "null"

overlayProjectDir(overlayRoot, projectName) == Join3(overlayRoot, "targets", projectName)

overlayWorktreeDir(overlayRoot, c) ==
    Join(Join4(overlayRoot, "targets", c.projectName, "worktrees"), c.worktreeName)

decodeOverlayPath(relPath, targetRoot, scope) ==
    LET agentDir(ai) ==
            IF ai # 0
            THEN [targetPath |-> Join3(targetRoot, managedAgentDirs[ai],
                                       Slice(relPath, Len(agentDirNames[ai]) + 1)),
                  scope |-> scope]
            ELSE IF Basename(relPath) = "agents.md"
            THEN [targetPath |-> Join(targetRoot, relPath), scope |-> scope]
            ELSE NullMapping
    IN  IF StartsWith(relPath, "clank/") \/ Includes(relPath, "/clank/")
        THEN [targetPath |-> Join(targetRoot, relPath), scope |-> scope]
        ELSE IF StartsWith(relPath, "prompts/")
        THEN [targetPath |-> Join3(targetRoot, ".claude/prompts", Slice(relPath, Len("prompts/"))),
              scope |-> scope]
        ELSE agentDir(FirstIndex(agentDirNames, LAMBDA d : StartsWith(relPath, d \o "/")))

mapGlobalOverlay(overlayPath, globalPrefix, targetRoot) ==
    LET map(relPath) == IF StartsWith(relPath, "init/") THEN NullMapping
                        ELSE decodeOverlayPath(relPath, targetRoot, "global")
    IN  map(Relative(globalPrefix, overlayPath))

mapProjectOverlay(overlayPath, projectPrefix, c) ==
    LET map(relPath, worktreePrefix) ==
            IF StartsWith(relPath, worktreePrefix \o "/")
            THEN decodeOverlayPath(Relative(worktreePrefix, relPath), c.targetRoot, "worktree")
            ELSE IF StartsWith(relPath, "worktrees/") THEN NullMapping
            ELSE IF relPath = "claude/settings.json"
            THEN [targetPath |-> Join(c.targetRoot, ".claude/settings.json"), scope |-> "project"]
            ELSE decodeOverlayPath(relPath, c.targetRoot, "project")
    IN  map(Relative(projectPrefix, overlayPath), Join("worktrees", c.worktreeName))

overlayToTarget(overlayPath, c) ==
    LET map(projectPrefix, globalPrefix) ==
            IF StartsWith(overlayPath, globalPrefix)
            THEN mapGlobalOverlay(overlayPath, globalPrefix, c.targetRoot)
            ELSE IF StartsWith(overlayPath, projectPrefix)
            THEN mapProjectOverlay(overlayPath, projectPrefix, c)
            ELSE NullMapping
    IN  map(Join3(c.overlayRoot, "targets", c.projectName), Join(c.overlayRoot, "global"))

encodeTargetPath(relPath, overlayBase) ==
    LET encode(pi, ai) ==
            IF Basename(relPath) = "agents.md" THEN Join(overlayBase, relPath)
            ELSE IF pi # 0
            THEN Join3(overlayBase, "prompts",
                       Slice(relPath, Len(managedAgentDirs[pi] \o "/prompts/")))
            ELSE IF ai # 0
            THEN Join3(overlayBase, Slice(managedAgentDirs[ai], 1),
                       Slice(relPath, Len(managedAgentDirs[ai]) + 1))
            ELSE IF Includes(relPath, "clank/") THEN Join(overlayBase, relPath)
            ELSE Join3(overlayBase, "clank", relPath)
    IN  encode(FirstIndex(managedAgentDirs, LAMBDA d : StartsWith(relPath, d \o "/prompts/")),
               FirstIndex(managedAgentDirs, LAMBDA d : StartsWith(relPath, d \o "/")))

targetToOverlay(targetPath, scope, c) ==
    LET relPath == Relative(c.targetRoot, targetPath)
        overlayBase == IF scope = "global" THEN Join(c.overlayRoot, "global")
                       ELSE IF scope = "worktree" THEN overlayWorktreeDir(c.overlayRoot, c)
                       ELSE overlayProjectDir(c.overlayRoot, c.projectName)
    IN  encodeTargetPath(relPath, overlayBase)

getPromptRelPath(normalizedPath) ==
    LET after(marker) == Slice(normalizedPath, IndexOf(normalizedPath, marker) + Len(marker))
        found(i) == IF i = 0 THEN "" ELSE after("/" \o managedAgentDirs[i] \o "/prompts/")
    IN  found(FirstIndex(managedAgentDirs,
                         LAMBDA d : Includes(normalizedPath, "/" \o d \o "/prompts/")))

\* the suffix goes before the first dot of the name
addScopeSuffixFirstDot(filename, scope) ==
    LET suffixed(dotIndex) ==
            (IF dotIndex = -1 THEN filename ELSE SliceTo(filename, dotIndex))
            \o "-" \o scope \o
            (IF dotIndex = -1 THEN "" ELSE Slice(filename, dotIndex))
    IN  IF scope = "global" THEN filename ELSE suffixed(IndexOf(filename, "."))

addScopeSuffix(filename, scope) ==
    LET suffixed(dotIndex) ==
            (IF dotIndex = -1 THEN filename ELSE SliceTo(filename, dotIndex))
            \o "-" \o scope \o
            (IF dotIndex = -1 THEN "" ELSE Slice(filename, dotIndex))
    IN  IF scope = "global" THEN filename ELSE suffixed(LastIndexOf(filename, "."))


(***************************************************************************)
(* The file system (node:fs and FsUtil.ts)                                 *)
(***************************************************************************)

FileEntry(data) == [kind |-> "file", dest |-> "", data |-> data]

DirEntry == [kind |-> "dir", dest |-> "", data |-> ""]

LinkEntry(dest) == [kind |-> "link", dest |-> dest, data |-> ""]

EmptyFs == [p \in {} |-> DirEntry]

\* fileExists: lstat succeeds
fileExists(f, p) == p \in DOMAIN f

isSymlink(f, p) == p \in DOMAIN f /\ f[p].kind = "link"

isDirectory(f, p) == p \in DOMAIN f /\ f[p].kind = "dir"

\* resolveSymlinkTarget: links are created with absolute targets
resolveSymlinkTarget(f, p) == f[p].dest

\* isTrackedByGit: git ls-files --error-unmatch
isTrackedByGit(trk, p) == p \in trk

\* a directory and all the directories above it, the root excluded
RECURSIVE Ancestors(_)
Ancestors(d) ==
    IF d = "/" \/ d = "." \/ d = "" THEN {} ELSE {d} \cup Ancestors(Dirname(d))

\* mkdir recursive succeeds unless something that is not a directory is in the way
CanMkdir(f, d) == \A a \in Ancestors(d) : a \in DOMAIN f => f[a].kind = "dir"

\* ensureDir
ensureDir(f, d) ==
    LET new == {a \in Ancestors(d) : a \notin DOMAIN f}
    IN  [p \in DOMAIN f \cup new |-> IF p \in DOMAIN f THEN f[p] ELSE DirEntry]

\* unlink: removes a file or a link; on a directory or a missing path it throws
CanUnlink(f, p) == p \in DOMAIN f /\ f[p].kind # "dir"

Remove(f, P) == [p \in DOMAIN f \ P |-> f[p]]

\* createSymlink succeeds unless a directory cannot be made or a directory sits at linkPath
CanCreateSymlink(f, linkPath) ==
    /\ CanMkdir(f, Dirname(linkPath))
    /\ ~isDirectory(f, linkPath)

\* createSymlink: ensureDir, unlink ignoring its error, symlink
createSymlink(f, target, linkPath) ==
    LET symlink(g) ==
            [p \in DOMAIN g \cup {linkPath} |-> IF p = linkPath THEN LinkEntry(target) ELSE g[p]]
    IN  symlink(ensureDir(f, Dirname(linkPath)))

\* writeFile
writeFile(f, p, data) ==
    [q \in DOMAIN f \cup {p} |-> IF q = p THEN FileEntry(data) ELSE f[q]]

\* the directory names on the way from root down to p, p's own name excluded
DirsBetween(root, p) ==
    LET init(parts) == {parts[i] : i \in 1..(Len(parts) - 1)}
    IN  init(Split(Relative(root, p)))

\* walkDirectory: the files and links below root, not descending into skipDirs
walkDirectory(f, root, skipDirs) ==
    {p \in DOMAIN f : /\ StartsWith(p, root \o "/")
                      /\ f[p].kind # "dir"
                      /\ DirsBetween(root, p) \cap skipDirs = {}}

DefaultSkipDirs == {".git", "node_modules"}

(***************************************************************************)
(* ClassifyFiles.ts                                                        *)
(***************************************************************************)

\* findAllAgentFiles
findAllAgentFiles(f, targetRoot) ==
    {p \in walkDirectory(f, targetRoot, DefaultSkipDirs) : Basename(p) \in Range(agentFiles)}

\* classifyAgentFiles; withCtx is whether a MapperContext was passed (check) or not (link)
classifyAgentFiles(f, trk, c, withCtx) ==
    LET inOverlay(p) == StartsWith(resolveSymlinkTarget(f, p), c.overlayRoot)
        classify(all) ==
            [tracked |-> {p \in all : f[p].kind = "file" /\ isTrackedByGit(trk, p)},
             untracked |-> {p \in all : f[p].kind = "file" /\ ~isTrackedByGit(trk, p)},
             staleSymlinks |-> {p \in all : f[p].kind = "link" /\ ~inOverlay(p)},
             outdatedSymlinks |->
                IF withCtx
                THEN {p \in all :
                        /\ f[p].kind = "link"
                        /\ inOverlay(p)
                        /\ resolveSymlinkTarget(f, p) #
                              targetToOverlay(Join(Dirname(p), "agents.md"), "project", c)}
                ELSE {}]
    IN  classify(findAllAgentFiles(f, c.targetRoot))

agentFileProblems(cl) ==
    \/ cl.tracked # {}
    \/ cl.untracked # {}
    \/ cl.staleSymlinks # {}
    \/ cl.outdatedSymlinks # {}


(***************************************************************************)
(* OverlayLinks.ts                                                         *)
(***************************************************************************)

\* walkOverlayFiles with no ignore patterns configured
walkOverlayFiles(f, dir) ==
    {p \in walkDirectory(f, dir, DefaultSkipDirs) : ~StartsWith(Relative(dir, p), "clank/init/")}

\* getPromptRelPath returns null when no marker is found; "" stands for null
isMatchingPromptPath(canonicalPath, actualPath) ==
    LET same(canonical) == canonical # "" /\ canonical = getPromptRelPath(actualPath)
    IN  same(getPromptRelPath(canonicalPath))

\* verifyManaged: the kind of the ManagedFileState
verifyManaged(f, linkPath, c) ==
    LET verify(absoluteTarget, mapping) ==
            IF ~StartsWith(absoluteTarget, c.overlayRoot) THEN "outside-overlay"
            ELSE IF IsNull(mapping) THEN "wrong-mapping"
            ELSE IF mapping.targetPath # linkPath
                    /\ ~isMatchingPromptPath(mapping.targetPath, linkPath)
                 THEN "wrong-mapping"
            ELSE "valid"
    IN  IF ~isSymlink(f, linkPath) THEN "unadded"
        ELSE verify(resolveSymlinkTarget(f, linkPath),
                    overlayToTarget(resolveSymlinkTarget(f, linkPath), c))

isSymlinkToOverlay(f, linkPath, overlayRoot) ==
    isSymlink(f, linkPath) /\ StartsWith(resolveSymlinkTarget(f, linkPath), overlayRoot)

(***************************************************************************)
(* The concurrent creation of symlinks (Promise.all over createSymlink)    *)
(*                                                                         *)
(* A task is one createSymlink call: [group, pos, link, dest].  The tasks  *)
(* of one group run in sequence (pos = 1, 2, ...), the groups run          *)
(* concurrently.  createSymlink is not atomic, so when two tasks have the  *)
(* same link path either may win, and the later symlink call may fail with *)
(* EEXIST.  The first failure rejects the Promise.all, the command throws  *)
(* and the process exits, whatever the other tasks have done so far.       *)
(***************************************************************************)

TaskPaths(D) == {t.link : t \in D}

Contested(T) == {p \in TaskPaths(T) : Cardinality({t \in T : t.link = p}) > 1}

\* the ways to pick the winning task of every contested link path of D
Winners(D) ==
    LET unc == {t \in D : t.link \notin Contested(D)}
        con == D \ unc
    IN  {unc \cup S : S \in {X \in SUBSET con :
                                \A p \in Contested(D) : Cardinality({t \in X : t.link = p}) = 1}}

\* the file system after the tasks D have run and the tasks W have won their paths
ApplyTasks(f, D, W) ==
    LET dirs == UNION {Ancestors(Dirname(t.link)) : t \in D} \ DOMAIN f
        P == TaskPaths(D)
    IN  [q \in DOMAIN f \cup dirs \cup P |->
            IF q \in P THEN LinkEntry((CHOOSE t \in W : t.link = q).dest)
            ELSE IF q \in DOMAIN f THEN f[q]
            ELSE DirEntry]

\* how far each group has come: the number of its tasks that are finished
Progress(T) ==
    LET G == {t.group : t \in T}
        N == Cardinality(T)
    IN  {k \in [G -> 0..N] : \A g \in G : k[g] <= Cardinality({t \in T : t.group = g})}

\* the outcomes of running the tasks T on f: [fs, ok, created]
PhaseOutcomes(f, T) ==
    LET feasible(D) == \A t \in D : CanCreateSymlink(f, t.link)
        success == IF feasible(T)
                   THEN {[fs |-> ApplyTasks(f, T, W), ok |-> TRUE, created |-> TaskPaths(T)] :
                            W \in Winners(T)}
                   ELSE {}
        done(k) == {t \in T : t.pos <= k[t.group]}
        next(k) == {t \in T : t.pos = k[t.group] + 1}
        fails(k) == \E t \in next(k) :
                        \/ ~CanCreateSymlink(f, t.link)
                        \/ t.link \in TaskPaths(done(k))
        \* a task that was cut off between its unlink and its symlink
        cut(k) == {t.link : t \in {u \in next(k) : CanUnlink(f, u.link)}} \ TaskPaths(done(k))
        failure == UNION {
                     {[fs |-> Remove(ApplyTasks(f, done(k), W), U), ok |-> FALSE,
                       created |-> TaskPaths(done(k))] :
                          W \in Winners(done(k)), U \in SUBSET cut(k)} :
                     k \in {j \in Progress(T) : feasible(done(j)) /\ fails(j)}}
    IN  IF Contested(T) = {} /\ feasible(T)
        THEN {[fs |-> ApplyTasks(f, T, T), ok |-> TRUE, created |-> TaskPaths(T)]}
        ELSE success \cup failure


(***************************************************************************)
(* Templates.ts                                                            *)
(***************************************************************************)

\* applyTemplate: the content with its {{variables}} replaced
applyTemplate(data) == "applied:" \o data

\* the test forgotten: the worktree is initialised on every link
isWorktreeInitializedNever(f, c) == FALSE

isWorktreeInitialized(f, c) == fileExists(f, overlayWorktreeDir(c.overlayRoot, c))

RECURSIVE WriteAll(_, _, _, _)
WriteAll(f, files, from, to) ==
    LET write(p, targetPath) ==
            WriteAll(writeFile(ensureDir(f, Join(targetPath, "..")), targetPath,
                               applyTemplate(f[p].data)),
                     files \ {p}, from, to)
        one(p) == write(p, Join(to, Relative(from, p)))
    IN  IF files = {} THEN f ELSE one(CHOOSE q \in files : TRUE)

initializeWorktreeOverlay(f, c) ==
    LET init(templateDir, overlayWorktree) ==
            IF ~fileExists(f, templateDir) THEN ensureDir(f, overlayWorktree)
            ELSE WriteAll(f, walkDirectory(f, templateDir, DefaultSkipDirs),
                          templateDir, overlayWorktree)
    IN  init(Join(c.overlayRoot, "global/init"), overlayWorktreeDir(c.overlayRoot, c))

(***************************************************************************)
(* Exclude.ts                                                              *)
(***************************************************************************)

\* hasTrackedFiles: git ls-files -- dir
hasTrackedFiles(trk, dir, repoRoot) ==
    \E p \in trk : StartsWith(p, Join(repoRoot, dir) \o "/")

\* addGitExcludes: the entries of the rebuilt clank section
addGitExcludes(trk, targetRoot) ==
    {d \o "/" : d \in {x \in Range(targetManagedDirs) : ~hasTrackedFiles(trk, x, targetRoot)}}
    \cup {a \in Range(agentFiles) : ~isTrackedByGit(trk, Join(targetRoot, a))}

(***************************************************************************)
(* commands/Link.ts                                                        *)
(***************************************************************************)

\* config.agents (Config.ts defaultConfig)
Agents == <<"agents", "claude", "gemini">>

\* getAgentFilePaths(dir)[agent]
AgentFilePath(dir, agent) ==
    IF agent = "agents" THEN Join(dir, "AGENTS.md")
    ELSE IF agent = "claude" THEN Join(dir, "CLAUDE.md")
    ELSE Join(dir, "GEMINI.md")

dirMappings(f, dir, c) ==
    IF ~fileExists(f, dir) THEN {}
    ELSE LET results == {[overlayPath |-> o, result |-> overlayToTarget(o, c)] :
                            o \in walkOverlayFiles(f, dir)}
         IN  {[overlayPath |-> r.overlayPath, targetPath |-> r.result.targetPath,
               scope |-> r.result.scope] : r \in {x \in results : ~IsNull(x.result)}}

overlayMappings(f, c) ==
    dirMappings(f, Join(c.overlayRoot, "global"), c)
    \cup dirMappings(f, overlayProjectDir(c.overlayRoot, c.projectName), c)

agentsMappings(M) == {m \in M : Basename(m.targetPath) = "agents.md"}

promptsMappings(M) == {m \in M : Includes(m.targetPath, "/.claude/prompts/")}

regularMappings(M) ==
    {m \in M : Basename(m.targetPath) # "agents.md"
               /\ ~Includes(m.targetPath, "/.claude/prompts/")}

isTrackedFile(f, trk, path) ==
    fileExists(f, path) /\ ~isSymlink(f, path) /\ isTrackedByGit(trk, path)

checkMappingParentExists(f, m, targetRoot) ==
    LET exists(relPath, clankIndex) ==
            clankIndex # -1 => fileExists(f, Join(targetRoot, SliceTo(relPath, clankIndex)))
        check(relPath) == exists(relPath, IndexOf(relPath, "/clank/"))
    IN  check(Relative(targetRoot, m.targetPath))

filterValidMappings(f, M, targetRoot) ==
    {m \in M : checkMappingParentExists(f, m, targetRoot)}

\* resolveLinks: the link path of one mapping among the files mapped to its target path
resolveLinks(m, files) ==
    IF Cardinality(files) = 1 THEN m.targetPath
    ELSE Join(Dirname(m.targetPath), addScopeSuffix(Basename(m.targetPath), m.scope))

\* createLinks: one createSymlink per valid regular mapping, all issued together
createLinksTasks(f, M, targetRoot) ==
    LET links(valid) ==
            {[group |-> m.overlayPath, pos |-> 1,
              link |-> resolveLinks(m, {n \in valid : n.targetPath = m.targetPath}),
              dest |-> m.overlayPath] : m \in valid}
    IN  links(filterValidMappings(f, M, targetRoot))

\* processAgentMapping: the aliases of one agents.md, in the configured order,
\* leaving out the real files that git tracks
processAgentMapping(f, trk, m) ==
    LET links(paths, kept) ==
            {[group |-> m.overlayPath, pos |-> Cardinality({j \in kept : j <= i}),
              link |-> paths[i], dest |-> m.overlayPath] : i \in kept}
        each(paths) == links(paths, {i \in 1..Len(Agents) : ~isTrackedFile(f, trk, paths[i])})
    IN  each([i \in 1..Len(Agents) |-> AgentFilePath(Dirname(m.targetPath), Agents[i])])

createAgentLinksTasks(f, trk, M) == UNION {processAgentMapping(f, trk, m) : m \in M}

\* processPromptMapping and createPromptLinks of OverlayLinks.ts
processPromptMapping(m, targetRoot) ==
    LET links(promptRelPath) ==
            IF promptRelPath = "" THEN {}
            ELSE {[group |-> m.overlayPath, pos |-> i,
                   link |-> Join4(targetRoot, managedAgentDirs[i], "prompts", promptRelPath),
                   dest |-> m.overlayPath] : i \in 1..Len(managedAgentDirs)}
    IN  links(getPromptRelPath(m.targetPath))

createPromptLinksTasks(M, targetRoot) == UNION {processPromptMapping(m, targetRoot) : m \in M}

\* setupProjectSettings: [fs, ok, created]
setupProjectSettings(f, c) ==
    LET link(h, overlayPath, targetPath) ==
            IF ~CanCreateSymlink(h, targetPath) THEN [fs |-> h, ok |-> FALSE, created |-> {}]
            ELSE [fs |-> createSymlink(h, overlayPath, targetPath), ok |-> TRUE,
                  created |-> {targetPath}]
        adopted(g, overlayPath, targetPath) ==
            [p \in (DOMAIN g \ {targetPath}) \cup {overlayPath} |->
                IF p = overlayPath THEN f[targetPath] ELSE g[p]]
        setup(overlayPath, targetPath, inOverlay, inTarget) ==
            IF inTarget /\ inOverlay THEN [fs |-> f, ok |-> FALSE, created |-> {}]
            ELSE link(IF inTarget
                      THEN adopted(ensureDir(f, Dirname(overlayPath)), overlayPath, targetPath)
                      ELSE IF ~inOverlay
                      THEN writeFile(ensureDir(f, Dirname(overlayPath)), overlayPath, "{}")
                      ELSE f,
                      overlayPath, targetPath)
        paths(overlayPath, targetPath) ==
            setup(overlayPath, targetPath, fileExists(f, overlayPath),
                  fileExists(f, targetPath) /\ ~isSymlink(f, targetPath))
    IN  paths(Join(Join4(c.overlayRoot, "targets", c.projectName, "claude"), "settings.json"),
              Join(c.targetRoot, ".claude/settings.json"))

\* run the next phase on every outcome that has not failed
Then(R, Phase(_)) ==
    UNION {IF r.ok
           THEN {[fs |-> q.fs, ok |-> q.ok, created |-> r.created \cup q.created] : q \in Phase(r.fs)}
           ELSE {r} : r \in R}

\* checkAgentFiles
checkAgentFiles(f, trk, c) == ~agentFileProblems(classifyAgentFiles(f, trk, c, FALSE))

\* linkCommand: the possible outcomes [fs, ok, created]
linkCommand(f, trk, c) ==
    LET links(f2, M) ==
            Then(Then(Then(Then({[fs |-> f2, ok |-> TRUE, created |-> {}]},
                LAMBDA g : PhaseOutcomes(g, createLinksTasks(g, regularMappings(M),
                                                             c.targetRoot))),
                LAMBDA g : PhaseOutcomes(g, createAgentLinksTasks(g, trk, agentsMappings(M)))),
                LAMBDA g : PhaseOutcomes(g, createPromptLinksTasks(promptsMappings(M),
                                                                   c.targetRoot))),
                LAMBDA g : {setupProjectSettings(g, c)})
        mapped(f2) == links(f2, overlayMappings(f2, c))
        init(f1) == mapped(IF isWorktreeInitialized(f1, c) THEN f1
                           ELSE initializeWorktreeOverlay(f1, c))
    IN  IF ~checkAgentFiles(f, trk, c) THEN {[fs |-> f, ok |-> FALSE, created |-> {}]}
        ELSE init(ensureDir(f, Join3(c.overlayRoot, "targets", c.projectName)))

(***************************************************************************)
(* commands/Unlink.ts                                                      *)
(***************************************************************************)

unlinkCommand(f, c) ==
    Remove(f, {p \in walkDirectory(f, c.targetRoot, DefaultSkipDirs) :
                  isSymlinkToOverlay(f, p, c.overlayRoot)})

(***************************************************************************)
(* commands/Check.ts                                                       *)
(***************************************************************************)

localOnlyFiles == {"settings.local.json"}

isInManagedDir(relPath) == Range(Split(relPath)) \cap Range(targetManagedDirs) # {}

isLocalOnlyFile(relPath) == Basename(relPath) \in localOnlyFiles

findUnaddedFiles(f, c) ==
    LET managed(relPath) == isInManagedDir(relPath) /\ ~isLocalOnlyFile(relPath)
        states == {[targetPath |-> p, kind |-> verifyManaged(f, p, c)] :
                     p \in {q \in walkDirectory(f, c.targetRoot, DefaultSkipDirs) :
                              managed(Relative(c.targetRoot, q))}}
    IN  {u \in states : u.kind # "valid"}

\* extractTargetSubdir; "" stands for null
extractTargetSubdir(relPath) ==
    LET subdir(i) ==
            IF i # 0 THEN SliceTo(relPath, IndexOf(relPath, "/" \o managedDirs[i] \o "/"))
            ELSE IF EndsWith(relPath, "/agents.md")
            THEN SliceTo(relPath, Len(relPath) - Len("/agents.md"))
            ELSE ""
    IN  subdir(FirstIndex(managedDirs, LAMBDA d : IndexOf(relPath, "/" \o d \o "/") # -1))

findOrphans(f, c) ==
    LET orphan(p, relPath, targetSubdir) ==
            IF /\ Includes(relPath, "/")
               /\ \A d \in Range(managedDirs) : ~StartsWith(relPath, d \o "/")
               /\ targetSubdir # ""
               /\ ~fileExists(f, Join(c.targetRoot, targetSubdir))
            THEN {[overlayPath |-> p, expectedTargetDir |-> targetSubdir]}
            ELSE {}
        file(p, relPath) == orphan(p, relPath, extractTargetSubdir(relPath))
        find(projectDir) ==
            IF ~fileExists(f, projectDir) THEN {}
            ELSE UNION {file(p, Relative(projectDir, p)) :
                          p \in walkDirectory(f, projectDir,
                                              {".git", "node_modules", "worktrees"})}
    IN  find(overlayProjectDir(c.overlayRoot, c.projectName))

\* checkAllProblems: what check reports
checkCommand(f, trk, c) ==
    [unadded |-> findUnaddedFiles(f, c),
     agents |-> classifyAgentFiles(f, trk, c, TRUE),
     orphans |-> findOrphans(f, c)]

NoReport ==
    [unadded |-> {},
     agents |-> [tracked |-> {}, untracked |-> {}, staleSymlinks |-> {}, outdatedSymlinks |-> {}],
     orphans |-> {}]


(***************************************************************************)
(* Scope options and add paths (Mapper.ts), ScopeFromSymlink.ts            *)
(***************************************************************************)

\* the ScopeOptions of a command line: which of --global, --project, --worktree are set
NoOptions == [global |-> FALSE, project |-> FALSE, worktree |-> FALSE]

\* resolveScopeFromOptions; "throw" stands for the error of defaultScope "require"
resolveScopeFromOptions(options, defaultScope) ==
    IF options.global THEN "global"
    ELSE IF options.project THEN "project"
    ELSE IF options.worktree THEN "worktree"
    ELSE IF defaultScope = "require" THEN "throw"
    ELSE defaultScope

UpperCase == "ABCDEFGHIJKLMNOPQRSTUVWXYZ"

LowerCase == "abcdefghijklmnopqrstuvwxyz"

\* String.prototype.toLowerCase on ASCII
RECURSIVE toLowerCase(_)
toLowerCase(s) ==
    LET lower(ch, i) == IF i = -1 THEN ch ELSE SubSeq(LowerCase, i + 1, i + 1)
        first(ch) == lower(ch, IndexOf(UpperCase, ch))
    IN  IF s = "" THEN "" ELSE first(SubSeq(s, 1, 1)) \o toLowerCase(Slice(s, 1))

isAgentFile(filename) ==
    toLowerCase(Basename(filename)) \in {"claude.md", "gemini.md", "agents.md"}

isPromptFile(normalizedPath) ==
    \E d \in Range(managedAgentDirs) : Includes(normalizedPath, "/" \o d \o "/prompts/")

normalizeAddPath(input, cwd, gitRoot) ==
    LET clank(filename, normalizedCwd) == Join3(normalizedCwd, "clank", filename)
        agent(inputDir) == Join(IF inputDir = "." THEN cwd ELSE Join(cwd, inputDir), "agents.md")
        norm(normalized) ==
            IF isAgentFile(normalized) THEN agent(Dirname(normalized))
            ELSE IF \E d \in Range(managedAgentDirs) : StartsWith(normalized, d \o "/")
            THEN Join(gitRoot, normalized)
            ELSE IF Includes(normalized, "/clank/") THEN Join(cwd, normalized)
            ELSE clank(IF StartsWith(normalized, "clank/")
                       THEN Slice(normalized, Len("clank/")) ELSE normalized,
                       IF EndsWith(cwd, "/clank") /\ cwd # gitRoot
                       THEN SliceTo(cwd, Len(cwd) - Len("/clank")) ELSE cwd)
    IN  norm(IF StartsWith(input, "./") THEN Slice(input, 2) ELSE input)

\* scopeFromSymlink; "null" stands for null
scopeFromSymlink(f, targetPath, c) ==
    LET scope(overlayPath) ==
            IF ~StartsWith(overlayPath, c.overlayRoot) THEN "null"
            ELSE overlayToTarget(overlayPath, c).scope
    IN  IF ~isSymlink(f, targetPath) THEN "null"
        ELSE scope(resolveSymlinkTarget(f, targetPath))

\* createPromptLinks of OverlayLinks.ts: the paths it links, in order
promptLinkPaths(promptRelPath, gitRoot) ==
    [i \in 1..Len(managedAgentDirs) |-> Join4(gitRoot, managedAgentDirs[i], "prompts", promptRelPath)]

\* createSymlink calls one after the other on the result r = [fs, ok]; a call
\* that throws leaves the directories it made; with stop the first throw
\* ends the sequence (await in a loop), without it every call is made
\* (Promise.all over distinct paths)
RECURSIVE LinkEach(_, _, _, _)
LinkEach(r, paths, overlayPath, stop) ==
    LET failed(g, p) == [fs |-> IF CanMkdir(g, Dirname(p)) THEN ensureDir(g, Dirname(p)) ELSE g,
                         ok |-> FALSE]
        one(g, p) == IF CanCreateSymlink(g, p)
                     THEN [fs |-> createSymlink(g, overlayPath, p), ok |-> r.ok]
                     ELSE failed(g, p)
    IN  IF paths = <<>> \/ (stop /\ ~r.ok) THEN r
        ELSE LinkEach(one(r.fs, Head(paths)), Tail(paths), overlayPath, stop)

\* createPromptLinks of OverlayLinks.ts
createPromptLinks(f, overlayPath, promptRelPath, gitRoot) ==
    LinkEach([fs |-> f, ok |-> TRUE], promptLinkPaths(promptRelPath, gitRoot), overlayPath, TRUE)

\* the members of a sequence that pass a test, in order
RECURSIVE SelectPaths(_, _)
SelectPaths(paths, keep) ==
    IF paths = <<>> THEN <<>>
    ELSE (IF Head(paths) \in keep THEN <<Head(paths)>> ELSE <<>>) \o SelectPaths(Tail(paths), keep)

\* forEachAgentPath: the agent paths of a directory, in the order of config.agents
agentPaths(dir) == [i \in 1..Len(Agents) |-> AgentFilePath(dir, Agents[i])]

(***************************************************************************)
(* commands/Add.ts                                                         *)
(***************************************************************************)

\* classifyAgentLinks: toCreate
classifyAgentLinks(f, trk, symlinkDir, overlayRoot) ==
    {p \in Range(agentPaths(symlinkDir)) :
        /\ ~isSymlinkToOverlay(f, p, overlayRoot)
        /\ ~(fileExists(f, p) /\ ~isSymlink(f, p) /\ isTrackedByGit(trk, p))}

\* createAgentLinks of Add.ts
addAgentLinks(f, trk, overlayPath, symlinkDir, overlayRoot) ==
    LinkEach([fs |-> f, ok |-> TRUE],
             SelectPaths(agentPaths(symlinkDir),
                         classifyAgentLinks(f, trk, symlinkDir, overlayRoot)),
             overlayPath, FALSE)

\* findSourceContent
findSourceContent(f, normalizedPath, barePath) ==
    IF fileExists(f, normalizedPath) /\ ~isSymlink(f, normalizedPath) THEN f[normalizedPath].data
    ELSE IF fileExists(f, barePath) /\ ~isSymlink(f, barePath) THEN f[barePath].data
    ELSE ""

\* addSymlinkToOverlay and addFileToOverlay: the entry stored at overlayPath
addToOverlay(f, normalizedPath, barePath, overlayPath) ==
    LET store(g) ==
            [p \in DOMAIN g \cup {overlayPath} |->
                IF p # overlayPath THEN g[p]
                ELSE IF isSymlink(f, barePath) THEN LinkEntry(f[barePath].dest)
                ELSE FileEntry(findSourceContent(f, normalizedPath, barePath))]
    IN  IF ~CanMkdir(f, Dirname(overlayPath)) THEN [fs |-> f, ok |-> FALSE]
        ELSE [fs |-> store(ensureDir(f, Dirname(overlayPath))), ok |-> TRUE]

\* handleRegularFile
handleRegularFile(f, normalizedPath, overlayPath, overlayRoot) ==
    IF isSymlinkToOverlay(f, normalizedPath, overlayRoot) THEN [fs |-> f, ok |-> TRUE]
    ELSE LinkEach([fs |-> f, ok |-> TRUE], <<normalizedPath>>, overlayPath, TRUE)

\* no add is refused for the scope of its link
checkScopeConflictNever(f, barePath, requestedScope, c) == FALSE

\* checkScopeConflict: TRUE when it throws
checkScopeConflict(f, barePath, requestedScope, c) ==
    LET conflict(currentScope) == currentScope # "null" /\ currentScope # requestedScope
    IN  conflict(scopeFromSymlink(f, barePath, c))

\* addSingleFile
addSingleFile(f, trk, filePath, options, c, cwd) ==
    LET links(g, normalizedPath, overlayPath) ==
            IF isAgentFile(filePath)
            THEN addAgentLinks(g, trk, overlayPath, Dirname(normalizedPath), c.overlayRoot)
            ELSE IF isPromptFile(normalizedPath)
            THEN createPromptLinks(g, overlayPath, getPromptRelPath(normalizedPath), c.targetRoot)
            ELSE handleRegularFile(g, normalizedPath, overlayPath, c.overlayRoot)
        stored(r, normalizedPath, overlayPath) ==
            IF r.ok THEN links(r.fs, normalizedPath, overlayPath) ELSE r
        store(normalizedPath, barePath, overlayPath) ==
            IF fileExists(f, overlayPath) THEN links(f, normalizedPath, overlayPath)
            ELSE stored(addToOverlay(f, normalizedPath, barePath, overlayPath),
                        normalizedPath, overlayPath)
        checked(scope, normalizedPath) ==
            IF checkScopeConflict(f, Join(cwd, filePath), scope, c)
            THEN [fs |-> f, ok |-> FALSE]
            ELSE store(normalizedPath, Join(cwd, filePath),
                       targetToOverlay(normalizedPath, scope, c))
    IN  checked(resolveScopeFromOptions(options, "project"),
                normalizeAddPath(filePath, cwd, c.targetRoot))

\* the files of a directory argument are added one after the other
RECURSIVE addEach(_, _, _, _, _, _)
addEach(r, files, trk, options, c, cwd) ==
    LET rest(p) == addEach(addSingleFile(r.fs, trk, Relative(cwd, p), options, c, cwd),
                           files \ {p}, trk, options, c, cwd)
    IN  IF files = {} \/ ~r.ok THEN r ELSE rest(CHOOSE p \in files : TRUE)

\* addCommand with one path argument, not interactive
addCommand(f, trk, filePath, options, c, cwd) ==
    IF ~fileExists(f, c.overlayRoot) \/ (options.worktree /\ ~c.isWorktree)
    THEN [fs |-> f, ok |-> FALSE]
    ELSE IF isDirectory(f, Join(cwd, filePath))
    THEN addEach([fs |-> f, ok |-> TRUE], walkDirectory(f, Join(cwd, filePath), DefaultSkipDirs),
                 trk, options, c, cwd)
    ELSE addSingleFile(f, trk, filePath, options, c, cwd)

(***************************************************************************)
(* commands/Rm.ts                                                          *)
(***************************************************************************)

\* findInScopes
findInScopes(f, targetPath, c) ==
    {s \in Scopes : fileExists(f, targetToOverlay(targetPath, s, c))}

\* resolveScope of Rm.ts; "throw" stands for its errors
resolveScope(f, targetPath, options, c) ==
    LET one(found) == IF Cardinality(found) # 1 THEN "throw" ELSE CHOOSE s \in found : TRUE
        linked(scope) == IF scope # "null" THEN scope ELSE one(findInScopes(f, targetPath, c))
    IN  IF options.global \/ options.project \/ options.worktree
        THEN resolveScopeFromOptions(options, "project")
        ELSE linked(scopeFromSymlink(f, targetPath, c))

\* fs.rm without options: throws on a directory
rmPath(f, p) ==
    IF isDirectory(f, p) THEN [fs |-> f, ok |-> FALSE] ELSE [fs |-> Remove(f, {p}), ok |-> TRUE]

\* removeFile
removeFile(f, targetPath, overlayPath, overlayRoot) ==
    IF fileExists(f, targetPath) /\ ~isSymlinkToOverlay(f, targetPath, overlayRoot)
    THEN [fs |-> f, ok |-> FALSE]
    ELSE rmPath(Remove(f, {targetPath}), overlayPath)

\* removeAgentFiles
removeAgentFiles(f, targetPath, overlayPath, overlayRoot) ==
    rmPath(Remove(f, {p \in Range(agentPaths(Dirname(targetPath))) :
                         isSymlinkToOverlay(f, p, overlayRoot)}),
           overlayPath)

\* rmCommand: the body of its loop, for one path argument
rmSingleFile(f, filePath, options, c, cwd) ==
    LET remove(normalizedPath, overlayPath) ==
            IF ~fileExists(f, overlayPath) THEN [fs |-> f, ok |-> FALSE]
            ELSE IF isAgentFile(filePath)
            THEN removeAgentFiles(f, normalizedPath, overlayPath, c.overlayRoot)
            ELSE removeFile(f, normalizedPath, overlayPath, c.overlayRoot)
        scoped(normalizedPath, scope) ==
            IF scope = "throw" THEN [fs |-> f, ok |-> FALSE]
            ELSE remove(normalizedPath, targetToOverlay(normalizedPath, scope, c))
        file(normalizedPath) ==
            scoped(normalizedPath, resolveScope(f, normalizedPath, options, c))
    IN  file(normalizeAddPath(filePath, cwd, c.targetRoot))

\* the path arguments are removed one after the other; the first error ends the command
RECURSIVE rmEach(_, _, _, _, _)
rmEach(r, filePaths, options, c, cwd) ==
    IF filePaths = <<>> \/ ~r.ok THEN r
    ELSE rmEach(rmSingleFile(r.fs, Head(filePaths), options, c, cwd),
                Tail(filePaths), options, c, cwd)

\* rmCommand: filePaths is the sequence of the path arguments
rmCommand(f, filePaths, options, c, cwd) ==
    IF ~fileExists(f, c.overlayRoot) THEN [fs |-> f, ok |-> FALSE]
    ELSE rmEach([fs |-> f, ok |-> TRUE], filePaths, options, c, cwd)

(***************************************************************************)
(* commands/Move.ts                                                        *)
(***************************************************************************)

\* fs.rename of a file or a link: throws when the source is missing, when a
\* directory is at the destination or when the destination has no directory
CanRename(f, from, to) ==
    /\ fileExists(f, from)
    /\ ~isDirectory(f, from)
    /\ ~isDirectory(f, to)
    /\ isDirectory(f, Dirname(to))

rename(f, from, to) ==
    [p \in (DOMAIN f \ {from}) \cup {to} |-> IF p = to THEN f[from] ELSE f[p]]

\* ensureDir(dirname(to)), then rename(from, to)
moveInOverlay(f, from, to) ==
    LET moved(g) == IF CanRename(g, from, to) THEN [fs |-> rename(g, from, to), ok |-> TRUE]
                    ELSE [fs |-> g, ok |-> FALSE]
    IN  IF ~CanMkdir(f, Dirname(to)) THEN [fs |-> f, ok |-> FALSE]
        ELSE moved(ensureDir(f, Dirname(to)))

\* recreateAgentLinks
recreateAgentLinks(f, normalizedPath, overlayPath) ==
    LinkEach([fs |-> f, ok |-> TRUE], agentPaths(Dirname(normalizedPath)), overlayPath, TRUE)

\* recreatePromptLinks and renamePromptLinks: the old links are removed, the new ones created
renamePromptLinks(f, oldNormPath, newNormPath, newOverlayPath, c) ==
    LET old(oldPromptRel) ==
            {p \in Range(promptLinkPaths(oldPromptRel, c.targetRoot)) :
                isSymlinkToOverlay(f, p, c.overlayRoot)}
        links(oldPromptRel, newPromptRel) ==
            IF oldPromptRel = "" \/ newPromptRel = "" THEN [fs |-> f, ok |-> TRUE]
            ELSE createPromptLinks(Remove(f, old(oldPromptRel)), newOverlayPath,
                                   newPromptRel, c.targetRoot)
    IN  links(getPromptRelPath(oldNormPath), getPromptRelPath(newNormPath))

\* recreateSymlink and renameSymlink
renameSymlink(f, oldTargetPath, newTargetPath, newOverlayPath, c) ==
    LinkEach([fs |-> IF isSymlinkToOverlay(f, oldTargetPath, c.overlayRoot)
                     THEN Remove(f, {oldTargetPath}) ELSE f,
              ok |-> TRUE],
             <<newTargetPath>>, newOverlayPath, TRUE)

\* moveSingleFile
moveSingleFile(f, filePath, targetScope, c, cwd) ==
    LET links(g, normalizedPath, newOverlayPath) ==
            IF isAgentFile(filePath) THEN recreateAgentLinks(g, normalizedPath, newOverlayPath)
            ELSE IF isPromptFile(normalizedPath)
            THEN renamePromptLinks(g, normalizedPath, normalizedPath, newOverlayPath, c)
            ELSE renameSymlink(g, normalizedPath, normalizedPath, newOverlayPath, c)
        moved(r, normalizedPath, newOverlayPath) ==
            IF r.ok THEN links(r.fs, normalizedPath, newOverlayPath) ELSE r
        move(currentScope, normalizedPath) ==
            IF currentScope = "null" THEN [fs |-> f, ok |-> FALSE]
            ELSE IF currentScope = targetScope THEN [fs |-> f, ok |-> TRUE]
            ELSE moved(moveInOverlay(f, targetToOverlay(normalizedPath, currentScope, c),
                                     targetToOverlay(normalizedPath, targetScope, c)),
                       normalizedPath, targetToOverlay(normalizedPath, targetScope, c))
    IN  move(scopeFromSymlink(f, Join(cwd, filePath), c),
             normalizeAddPath(filePath, cwd, c.targetRoot))

\* renameFile
renameFile(f, sourcePath, destName, c, cwd) ==
    LET links(g, normalizedSource, normalizedDest, destOverlay) ==
            IF isPromptFile(normalizedSource)
            THEN renamePromptLinks(g, normalizedSource, normalizedDest, destOverlay, c)
            ELSE renameSymlink(g, normalizedSource, normalizedDest, destOverlay, c)
        moved(r, normalizedSource, normalizedDest, destOverlay) ==
            IF r.ok THEN links(r.fs, normalizedSource, normalizedDest, destOverlay) ELSE r
        renamed(normalizedSource, normalizedDest, sourceOverlay, destOverlay) ==
            IF fileExists(f, destOverlay) THEN [fs |-> f, ok |-> FALSE]
            ELSE moved(moveInOverlay(f, sourceOverlay, destOverlay),
                       normalizedSource, normalizedDest, destOverlay)
        paths(currentScope, normalizedSource, normalizedDest) ==
            renamed(normalizedSource, normalizedDest,
                    targetToOverlay(normalizedSource, currentScope, c),
                    targetToOverlay(normalizedDest, currentScope, c))
        dest(currentScope, sourceDir) ==
            paths(currentScope, normalizeAddPath(sourcePath, cwd, c.targetRoot),
                  normalizeAddPath(IF sourceDir = "." THEN destName ELSE Join(sourceDir, destName),
                                   cwd, c.targetRoot))
        source(currentScope) ==
            IF currentScope = "null" \/ isAgentFile(sourcePath) THEN [fs |-> f, ok |-> FALSE]
            ELSE dest(currentScope, Dirname(sourcePath))
    IN  source(scopeFromSymlink(f, Join(cwd, sourcePath), c))

\* moveCommand: filePaths is the sequence of the path arguments
moveCommand(f, filePaths, options, c, cwd) ==
    IF ~fileExists(f, c.overlayRoot) THEN [fs |-> f, ok |-> FALSE]
    ELSE IF options.global \/ options.project \/ options.worktree
    THEN moveSingleFile(f, filePaths[1], resolveScopeFromOptions(options, "require"), c, cwd)
    ELSE IF Len(filePaths) = 2 THEN renameFile(f, filePaths[1], filePaths[2], c, cwd)
    ELSE [fs |-> f, ok |-> FALSE]

(***************************************************************************)
(* Cli.ts                                                                  *)
(***************************************************************************)

\* the scope options of mv are declared with conflicts: commander rejects a
\* command line that sets two of them before the command runs
registerMvCommand(f, filePaths, options, c, cwd) ==
    IF Cardinality({s \in Scopes : options[s]}) > 1 THEN [fs |-> f, ok |-> FALSE]
    ELSE moveCommand(f, filePaths, options, c, cwd)

\* the scope options of add are plain options
registerAddCommand(f, trk, filePath, options, c, cwd) ==
    addCommand(f, trk, filePath, options, c, cwd)

\* the scope options of rm are plain options
registerRmCommand(f, filePaths, options, c, cwd) == rmCommand(f, filePaths, options, c, cwd)


(***************************************************************************)
(* OverlayLinks.ts: cleanStaleWorktreeSymlinks (its isInManagedDir is that *)
(* of Check.ts, word for word)                                             *)
(***************************************************************************)

\* cleanStaleWorktreeSymlinks: the file system it leaves
cleanStaleWorktreeSymlinks(f, targetRoot, overlayRoot, c) ==
    LET worktreesPrefix == overlayRoot \o "/targets/" \o c.projectName \o "/worktrees/"
        other(worktreeName) == worktreeName # "" /\ worktreeName # c.worktreeName
        wrong(target) ==
            /\ StartsWith(target, worktreesPrefix)
            /\ other(Split(Slice(target, Len(worktreesPrefix)))[1])
        stale(p) ==
            /\ isInManagedDir(Relative(targetRoot, p))
            /\ isSymlink(f, p)
            /\ wrong(resolveSymlinkTarget(f, p))
    IN  Remove(f, {p \in walkDirectory(f, targetRoot, DefaultSkipDirs) : stale(p)})

(***************************************************************************)
(* commands/files/Scan.ts                                                  *)
(***************************************************************************)

\* inferScopeFromOverlay; "null" stands for null
inferScopeFromOverlay(overlayPath, overlayRoot, c) ==
    LET infer(projectPath) ==
            IF StartsWith(overlayPath, Join3(projectPath, "worktrees", c.worktreeName) \o "/")
            THEN "worktree"
            ELSE IF StartsWith(overlayPath, projectPath \o "/") THEN "project"
            ELSE "null"
    IN  IF StartsWith(overlayPath, Join(overlayRoot, "global") \o "/") THEN "global"
        ELSE infer(Join3(overlayRoot, "targets", c.projectName))

Unlinked == [kind |-> "unlinked", overlayPath |-> "", scope |-> "null"]

\* classifyLink: the LinkState of a listed path; readlink throws for what is no symlink
classifyLink(f, filePath, overlayRoot, c) ==
    LET linked(overlayPath, scope) ==
            IF scope = "null" THEN Unlinked
            ELSE [kind |-> "linked", overlayPath |-> overlayPath, scope |-> scope]
        classify(overlayPath) ==
            IF ~StartsWith(overlayPath, overlayRoot) THEN Unlinked
            ELSE linked(overlayPath, inferScopeFromOverlay(overlayPath, overlayRoot, c))
    IN  IF ~isSymlink(f, filePath) THEN Unlinked
        ELSE classify(resolveSymlinkTarget(f, filePath))

\* passesLinkFilter; opts = [linkedOnly, unlinkedOnly, scopeFilter]
passesLinkFilter(link, opts) ==
    IF (opts.linkedOnly \/ opts.scopeFilter # "null") /\ link.kind # "linked" THEN FALSE
    ELSE IF opts.unlinkedOnly /\ link.kind # "unlinked" THEN FALSE
    ELSE IF opts.scopeFilter = "null" THEN TRUE
    ELSE link.kind = "linked" /\ link.scope = opts.scopeFilter

(***************************************************************************)
(* commands/files/Dedupe.ts                                                *)
(*                                                                         *)
(* An entry is [absolutePath, cwdRelativePath, targetRelativePath]; the    *)
(* lists of entries are sequences, in the order of the walk.               *)
(***************************************************************************)

\* String.prototype.toUpperCase on ASCII
RECURSIVE toUpperCase(_)
toUpperCase(s) ==
    LET upper(ch, i) == IF i = -1 THEN ch ELSE SubSeq(UpperCase, i + 1, i + 1)
        first(ch) == upper(ch, IndexOf(LowerCase, ch))
    IN  IF s = "" THEN "" ELSE first(SubSeq(s, 1, 1)) \o toUpperCase(Slice(s, 1))

\* the collation order of the characters of the listed paths: punctuation
\* before letters, a lower-case letter before its upper-case letter
Collation == "-./aAbBcCdDeEfFgGhHiIjJkKlLmMnNoOpPqQrRsStTuUvVwWxXyYzZ"

\* a.localeCompare(b) < 0
RECURSIVE localeLess(_, _)
localeLess(a, b) ==
    LET rank(s) == IndexOf(Collation, SubSeq(s, 1, 1))
    IN  IF b = "" THEN FALSE
        ELSE IF a = "" THEN TRUE
        ELSE IF rank(a) # rank(b) THEN rank(a) < rank(b)
        ELSE localeLess(Slice(a, 1), Slice(b, 1))

\* relPath.split("/").at(-1)
LastPart(relPath) == Split(relPath)[Len(Split(relPath))]

basenameUpper(relPath) == toUpperCase(LastPart(relPath))

isAgentFilePath(relPath) ==
    /\ LastPart(relPath) # ""
    /\ \E i \in 1..Len(agentFiles) : toLowerCase(agentFiles[i]) = toLowerCase(LastPart(relPath))

\* isInDirectory of Scan.ts
isInDirectory(relPath, dirName) ==
    StartsWith(relPath, dirName \o "/") \/ Includes(relPath, "/" \o dirName \o "/")

\* mapPreference; mapping is a function on the names it knows
mapPreference(preference, mapping, defaults) ==
    LET mapped(known) == [i \in 1..Len(known) |-> mapping[toLowerCase(known[i])]]
        order(o) == IF Len(o) > 0 THEN o ELSE defaults
    IN  order(mapped(SelectSeq(preference, LAMBDA q : toLowerCase(q) \in DOMAIN mapping)))

agentPreferenceToFilename(preference) ==
    mapPreference(preference,
                  [agents |-> "AGENTS.md", claude |-> "CLAUDE.md", gemini |-> "GEMINI.md"],
                  <<"AGENTS.md", "CLAUDE.md", "GEMINI.md">>)

agentPreferenceToDotAgentDir(preference) ==
    mapPreference(preference, [claude |-> ".claude", gemini |-> ".gemini"],
                  <<".claude", ".gemini">>)

\* entries.toSorted(by cwdRelativePath)[0]: the first of the least entries
FirstSorted(entries) ==
    entries[FirstIndex(entries,
                       LAMBDA e : \A j \in 1..Len(entries) :
                                      ~localeLess(entries[j].cwdRelativePath, e.cwdRelativePath))]

\* new Map(pairs).get(key): the last entry put under the key
LastUnder(entries, Key(_), key) ==
    entries[Max({i \in 1..Len(entries) : Key(entries[i]) = key})]

\* the fallback takes the entry that sorts last
chooseByBasenameLast(entries, preferredBasenames) ==
    LET base(e) == basenameUpper(e.targetRelativePath)
        found(pi) ==
            IF pi # 0 THEN <<LastUnder(entries, base, toUpperCase(preferredBasenames[pi]))>>
            ELSE IF entries = <<>> THEN <<>>
            ELSE <<entries[FirstIndex(entries,
                       LAMBDA e : \A j \in 1..Len(entries) :
                                      ~localeLess(e.cwdRelativePath, entries[j].cwdRelativePath))]>>
    IN  found(FirstIndex(preferredBasenames,
                         LAMBDA b : \E i \in 1..Len(entries) : base(entries[i]) = toUpperCase(b)))

\* chooseByBasename: <<the chosen entry>>, or <<>> for null
chooseByBasename(entries, preferredBasenames) ==
    LET base(e) == basenameUpper(e.targetRelativePath)
        found(pi) ==
            IF pi # 0 THEN <<LastUnder(entries, base, toUpperCase(preferredBasenames[pi]))>>
            ELSE IF entries = <<>> THEN <<>>
            ELSE <<FirstSorted(entries)>>
    IN  found(FirstIndex(preferredBasenames,
                         LAMBDA b : \E i \in 1..Len(entries) : base(entries[i]) = toUpperCase(b)))

\* choosePreferredPrompt
choosePreferredPrompt(entries, preferredDirs) ==
    LET dir(e) == IF isInDirectory(e.targetRelativePath, ".claude/prompts") THEN ".claude"
                  ELSE IF isInDirectory(e.targetRelativePath, ".gemini/prompts") THEN ".gemini"
                  ELSE ""
        found(pi) == IF pi # 0 THEN LastUnder(entries, dir, preferredDirs[pi])
                     ELSE FirstSorted(entries)
    IN  found(FirstIndex(preferredDirs, LAMBDA d : \E i \in 1..Len(entries) : dir(entries[i]) = d))

\* Array.prototype.flat
RECURSIVE Flatten(_)
Flatten(seqs) == IF seqs = <<>> THEN <<>> ELSE Head(seqs) \o Flatten(Tail(seqs))

\* Map.groupBy(entries, Key) followed by flatMap(Each): the groups in the
\* order in which their keys first appear
GroupFlatMap(entries, Key(_), Each(_, _)) ==
    LET group(key) == Each(key, SelectSeq(entries, LAMBDA e : Key(e) = key))
        groups(firsts) == [n \in 1..Len(firsts) |-> group(Key(entries[firsts[n]]))]
    IN  Flatten(groups(SelectSeq([i \in 1..Len(entries) |-> i],
                                 LAMBDA i : \A j \in 1..(i - 1) :
                                                Key(entries[j]) # Key(entries[i]))))

dedupeAgentFiles(entries, agentsPreference) ==
    LET dirKey(e) == IF isAgentFilePath(e.targetRelativePath)
                     THEN Dirname(e.targetRelativePath) ELSE ""
        agent(e) == isAgentFilePath(e.targetRelativePath)
        each(key, group) ==
            IF key = "" THEN group
            ELSE SelectSeq(group, LAMBDA e : ~agent(e))
                 \o chooseByBasename(SelectSeq(group, agent),
                                     agentPreferenceToFilename(agentsPreference))
    IN  GroupFlatMap(entries, dirKey, each)

dedupePromptFiles(entries, agentsPreference) ==
    LET promptKey(e) == getPromptRelPath(e.absolutePath)
        each(key, group) ==
            IF key = "" THEN group
            ELSE <<choosePreferredPrompt(group, agentPreferenceToDotAgentDir(agentsPreference))>>
    IN  GroupFlatMap(entries, promptKey, each)

dedupeEntries(entries, agentsPreference) ==
    dedupePromptFiles(dedupeAgentFiles(entries, agentsPreference), agentsPreference)

(***************************************************************************)
(* Bounds and inputs                                                       *)
(***************************************************************************)

\* the most path components below an overlay area in a mapper query
MaxRelDepth == 3

\* the most files in the overlay at the start
MaxOverlayFiles == 2

\* the most entries in the target tree at the start
MaxTargetItems == 1

\* the most commands in one run of the model
MaxCmds == 3

OverlayRoot == "/o"

TargetRoot == "/t"

ProjectName == "p"

WorktreeNames == {"main", "feat", "feat/x"}

MapperContexts ==
    {[overlayRoot |-> OverlayRoot, targetRoot |-> TargetRoot, projectName |-> ProjectName,
      worktreeName |-> w, isWorktree |-> FALSE] : w \in WorktreeNames}

LinkContext ==
    [overlayRoot |-> OverlayRoot, targetRoot |-> TargetRoot, projectName |-> ProjectName,
     worktreeName |-> "main", isWorktree |-> FALSE]

\* where under the overlay root a queried path lies
OverlayAreas ==
    {"global", "globalx", "targets/p", "targets/p2", "targets/q",
     "targets/p/worktrees/main", "targets/p/worktrees/feat", "targets/p/worktrees/feat/x"}

RelNames == {"clank", "prompts", "claude", "gemini", "agents.md", "init", "a.md", "sub",
             "settings.json"}

RECURSIVE RelPaths(_)
RelPaths(n) ==
    IF n = 1 THEN RelNames
    ELSE RelPaths(n - 1) \cup {p \o "/" \o x : p \in RelPaths(n - 1), x \in RelNames}

OverlayQueries ==
    {OverlayRoot \o "/" \o a \o "/" \o r : a \in OverlayAreas, r \in RelPaths(MaxRelDepth)}

NoQuery == [op |-> "none", overlayPath |-> "", mapping |-> NullMapping, back |-> ""]

\* the files the overlay may hold at the start
OverlayUniverse ==
    {"/o/global/clank/notes.md",
     "/o/targets/p/clank/notes.md",
     "/o/targets/p/worktrees/main/clank/notes.md",
     "/o/global/clank/notes-project.md",
     "/o/global/agents.md",
     "/o/targets/p/agents.md",
     "/o/targets/p/packages/foo/agents.md",
     "/o/targets/p/packages/foo/clank/notes.md",
     "/o/targets/p/worktrees/main/packages/foo/clank/notes.md",
     "/o/global/prompts/x.md",
     "/o/targets/p/prompts/x.md",
     "/o/targets/p/claude/settings.json",
     "/o/global/init/plan.md"}

\* what the target tree may hold at the start
TargetItems ==
    {[path |-> "/t/clank/notes.md", entry |-> FileEntry("target"), tracked |-> TRUE],
     [path |-> "/t/clank/notes.md", entry |-> FileEntry("target"), tracked |-> FALSE],
     [path |-> "/t/CLAUDE.md", entry |-> FileEntry("target"), tracked |-> TRUE],
     [path |-> "/t/CLAUDE.md", entry |-> FileEntry("target"), tracked |-> FALSE],
     [path |-> "/t/CLAUDE.md", entry |-> LinkEntry("/elsewhere/CLAUDE.md"), tracked |-> FALSE],
     [path |-> "/t/CLAUDE.md", entry |-> LinkEntry("/o-backup/agents.md"), tracked |-> FALSE],
     [path |-> "/t/packages/foo", entry |-> DirEntry, tracked |-> FALSE],
     [path |-> "/t/.claude/settings.json", entry |-> FileEntry("target"), tracked |-> FALSE],
     [path |-> "/t/node_modules/pkg/CLAUDE.md", entry |-> FileEntry("target"), tracked |-> FALSE]}

\* the overlay after clank init, with the files O, and the target tree with the items T
BuildFs(O, T) ==
    LET build(given) ==
            [p \in {"/o", "/o/global", "/o/targets", "/t"} \cup given
                   \cup UNION {Ancestors(Dirname(q)) : q \in given} |->
                IF p \in O THEN FileEntry("overlay")
                ELSE IF \E t \in T : t.path = p THEN (CHOOSE t \in T : t.path = p).entry
                ELSE DirEntry]
    IN  build(O \cup {t.path : t \in T})

\* the most files in the overlay at the start of a run of add, rm and mv
MaxEditOverlayFiles == 2

\* the most entries in the target tree at the start of a run of add, rm and mv
MaxEditTargetItems == 2

\* the most add, rm and mv commands in one run
MaxEditCmds == 1

\* add, rm and mv run in a linked worktree, where every scope can be chosen
EditContext == [LinkContext EXCEPT !.isWorktree = TRUE]

\* the files the overlay may hold before add, rm and mv
EditOverlayUniverse ==
    {"/o/targets/p/clank/notes.md",
     "/o/global/clank/notes.md",
     "/o/targets/p/clank/notes-project.md",
     "/o/targets/p/agents.md",
     "/o/global/agents.md",
     "/o/targets/p/prompts/x.md"}

\* what the target tree may hold before add, rm and mv: the links that link
\* and add leave, and files of the user
EditTargetItems ==
    {[path |-> "/t/clank/notes.md", entry |-> LinkEntry("/o/targets/p/clank/notes.md"),
      tracked |-> FALSE],
     [path |-> "/t/clank/notes.md", entry |-> FileEntry("target"), tracked |-> FALSE],
     [path |-> "/t/clank/notes-project.md", entry |-> LinkEntry("/o/targets/p/clank/notes.md"),
      tracked |-> FALSE],
     [path |-> "/t/CLAUDE.md", entry |-> LinkEntry("/o/targets/p/agents.md"), tracked |-> FALSE],
     [path |-> "/t/CLAUDE.md", entry |-> FileEntry("target"), tracked |-> FALSE],
     [path |-> "/t/GEMINI.md", entry |-> LinkEntry("/o/global/agents.md"), tracked |-> FALSE],
     [path |-> "/t/AGENTS.md", entry |-> FileEntry("target"), tracked |-> TRUE],
     [path |-> "/t/.claude/prompts/x.md", entry |-> LinkEntry("/o/targets/p/prompts/x.md"),
      tracked |-> FALSE],
     [path |-> "/t/.gemini/prompts/x.md", entry |-> LinkEntry("/o/targets/p/prompts/x.md"),
      tracked |-> FALSE]}

\* the path arguments of add, rm and mv, relative to the working directory
EditFiles ==
    {"clank/notes.md", "clank/notes-project.md", "CLAUDE.md", "GEMINI.md", ".claude/prompts/x.md"}

\* the new names of mv in rename mode
EditNames == {"notes-project.md", "other.md"}

\* the arguments of mv: one path, or a path and a new name
MoveArgs ==
    {<<p>> : p \in EditFiles}
    \cup {<<"clank/notes.md", n>> : n \in EditNames}
    \cup {<<"CLAUDE.md", "other.md">>}

\* the arguments of rm: one path, or two
RmArgs ==
    {<<p>> : p \in EditFiles}
    \cup {<<"clank/notes.md", "CLAUDE.md">>, <<"CLAUDE.md", "clank/notes.md">>}

\* the settings of --global, --project and --worktree: none, each one, and two at once
ScopeOptionSets ==
    {NoOptions,
     [NoOptions EXCEPT !.global = TRUE],
     [NoOptions EXCEPT !.project = TRUE],
     [NoOptions EXCEPT !.worktree = TRUE],
     [NoOptions EXCEPT !.global = TRUE, !.project = TRUE]}

\* the overlay with the files O, each holding its own content, and the target
\* tree with the items T
BuildEditFs(O, T) ==
    LET build(given) ==
            [p \in {"/o", "/o/global", "/o/targets", "/t"} \cup given
                   \cup UNION {Ancestors(Dirname(q)) : q \in given} |->
                IF p \in O THEN FileEntry(p)
                ELSE IF \E t \in T : t.path = p THEN (CHOOSE t \in T : t.path = p).entry
                ELSE DirEntry]
    IN  build(O \cup {t.path : t \in T})

(***************************************************************************)
(* The mapper as a state machine: one call of a pure function per step     *)
(***************************************************************************)

InitMapper ==
    /\ ctx \in MapperContexts
    /\ query = NoQuery
    /\ fs = EmptyFs
    /\ tracked = {}
    /\ exclude = {}
    /\ hist = <<>>
    /\ created = {}
    /\ report = NoReport

OverlayToTargetCall ==
    /\ query.op = "none"
    /\ \E o \in OverlayQueries :
          query' = [op |-> "overlayToTarget", overlayPath |-> o,
                    mapping |-> overlayToTarget(o, ctx), back |-> ""]
    /\ UNCHANGED <<ctx, fs, tracked, exclude, hist, created, report>>

TargetToOverlayCall ==
    /\ query.op = "overlayToTarget"
    /\ ~IsNull(query.mapping)
    /\ query' = [query EXCEPT !.op = "targetToOverlay",
                              !.back = targetToOverlay(query.mapping.targetPath,
                                                       query.mapping.scope, ctx)]
    /\ UNCHANGED <<ctx, fs, tracked, exclude, hist, created, report>>

NextMapper == OverlayToTargetCall \/ TargetToOverlayCall

SpecMapper == InitMapper /\ [][NextMapper]_vars

(***************************************************************************)
(* The commands as a state machine: one command per step                   *)
(***************************************************************************)

Init ==
    /\ ctx = LinkContext
    /\ query = NoQuery
    /\ \E O \in SUBSET OverlayUniverse, T \in SUBSET TargetItems :
          /\ Cardinality(O) <= MaxOverlayFiles
          /\ Cardinality(T) <= MaxTargetItems
          /\ \A t, u \in T : t.path = u.path => t = u
          /\ fs = BuildFs(O, T)
          /\ tracked = {t.path : t \in {u \in T : u.tracked}}
    /\ exclude = {}
    /\ hist = <<>>
    /\ created = {}
    /\ report = NoReport

\* clank link
Link ==
    /\ Len(hist) < MaxCmds
    /\ \E r \in linkCommand(fs, tracked, ctx) :
          /\ fs' = r.fs
          /\ created' = r.created
          /\ exclude' = IF r.ok THEN addGitExcludes(tracked, ctx.targetRoot) ELSE exclude
          /\ hist' = Append(hist, [cmd |-> "link", ok |-> r.ok])
    /\ UNCHANGED <<ctx, query, tracked, report>>

\* clank unlink
Unlink ==
    /\ Len(hist) < MaxCmds
    /\ fs' = unlinkCommand(fs, ctx)
    /\ exclude' = IF ctx.isWorktree THEN exclude ELSE {}
    /\ hist' = Append(hist, [cmd |-> "unlink", ok |-> TRUE])
    /\ UNCHANGED <<ctx, query, tracked, created, report>>

\* clank check
Check ==
    /\ Len(hist) < MaxCmds
    /\ report' = checkCommand(fs, tracked, ctx)
    /\ hist' = Append(hist, [cmd |-> "check", ok |-> TRUE])
    /\ UNCHANGED <<ctx, query, fs, tracked, exclude, created>>

\* a file of the overlay is deleted from elsewhere: the overlay is shared by
\* every project and worktree, and it is a git repository of its own
OverlayFileDeleted ==
    /\ Len(hist) < MaxCmds
    /\ \E p \in {q \in DOMAIN fs : StartsWith(q, ctx.overlayRoot \o "/") /\ fs[q].kind = "file"} :
          fs' = Remove(fs, {p})
    /\ hist' = Append(hist, [cmd |-> "edit", ok |-> TRUE])
    /\ UNCHANGED <<ctx, query, tracked, exclude, created, report>>

Next == Link \/ Unlink \/ OverlayFileDeleted

\* link, unlink and the changes of the overlay between them
Spec == Init /\ [][Next]_vars

NextCheck == Link \/ Check

\* link and check
SpecCheck == Init /\ [][NextCheck]_vars


InitEdit ==
    /\ ctx = EditContext
    /\ query = NoQuery
    /\ \E O \in SUBSET EditOverlayUniverse, T \in SUBSET EditTargetItems :
          /\ Cardinality(O) <= MaxEditOverlayFiles
          /\ Cardinality(T) <= MaxEditTargetItems
          /\ \A t, u \in T : t.path = u.path => t = u
          /\ fs = BuildEditFs(O, T)
          /\ tracked = {t.path : t \in {u \in T : u.tracked}}
    /\ exclude = {}
    /\ hist = <<>>
    /\ created = {}
    /\ report = NoReport

\* a command that changes the file system only: r is its result [fs, ok];
\* the history keeps the command line
Edited(cmd, filePaths, options, r) ==
    /\ Len(hist) < MaxEditCmds
    /\ fs' = r.fs
    /\ hist' = Append(hist, [cmd |-> cmd, ok |-> r.ok, filePaths |-> filePaths,
                             options |-> options])
    /\ UNCHANGED <<ctx, query, tracked, exclude, created, report>>

\* clank add <filePath> with the scope options
AddCall(filePath, options) ==
    Edited("add", <<filePath>>, options,
           registerAddCommand(fs, tracked, filePath, options, ctx, ProcessCwd))

\* clank rm <filePaths> with the scope options
RmCall(filePaths, options) ==
    Edited("rm", filePaths, options,
           registerRmCommand(fs, filePaths, options, ctx, ProcessCwd))

\* clank mv <filePaths> with the scope options
MvCall(filePaths, options) ==
    Edited("mv", filePaths, options,
           registerMvCommand(fs, filePaths, options, ctx, ProcessCwd))

Add == \E filePath \in EditFiles, options \in ScopeOptionSets : AddCall(filePath, options)

Rm == \E filePaths \in RmArgs, options \in ScopeOptionSets : RmCall(filePaths, options)

Mv == \E filePaths \in MoveArgs, options \in ScopeOptionSets : MvCall(filePaths, options)

NextEdit == Add \/ Rm \/ Mv

\* add, rm and mv
SpecEdit == InitEdit /\ [][NextEdit]_vars


(***************************************************************************)
(* The path functions of Mapper.ts as a state machine: one call per step   *)
(***************************************************************************)

\* the names of the components of a queried target path
TargetNames == {"clank", "myclank", "agents.md", ".claude", ".gemini", "prompts", "a.md", "sub"}

RECURSIVE TargetRelPaths(_)
TargetRelPaths(n) ==
    IF n = 1 THEN TargetNames
    ELSE TargetRelPaths(n - 1) \cup {p \o "/" \o x : p \in TargetRelPaths(n - 1), x \in TargetNames}

\* the target paths handed to targetToOverlay
TargetQueries == {TargetRoot \o "/" \o r : r \in TargetRelPaths(MaxRelDepth)}

\* the path arguments of add, as typed
AddInputs ==
    {"notes.md", "./notes.md", "sub/notes.md", "clank/notes.md", "sub/clank/notes.md",
     "CLAUDE.md", "sub/GEMINI.md", ".claude/commands/review.md"}

\* the working directories of add
AddCwds ==
    {"/t", "/t/clank", "/t/tools/clank", "/t/clank/sub", "/t/packages/foo",
     "/t/.claude/commands", "/t/.gemini/commands", "/t/.claude"}

\* the file names handed to addScopeSuffix
SuffixNames == {"notes.md", "notes", "a.tar.gz", ".env", "a.", "x.y.z.md"}

InitFn ==
    /\ ctx \in MapperContexts
    /\ query = [op |-> "none"]
    /\ fs = EmptyFs
    /\ tracked = {}
    /\ exclude = {}
    /\ hist = <<>>
    /\ created = {}
    /\ report = NoReport

\* a call of one function: the query holds its arguments and its result
Called(q) ==
    /\ query.op = "none"
    /\ query' = q
    /\ UNCHANGED <<ctx, fs, tracked, exclude, hist, created, report>>

EncodeCall ==
    \E targetPath \in TargetQueries, scope \in Scopes :
        Called([op |-> "targetToOverlay", targetPath |-> targetPath, scope |-> scope,
                result |-> targetToOverlay(targetPath, scope, ctx)])

NormalizeCall ==
    \E input \in AddInputs, cwd \in AddCwds :
        Called([op |-> "normalizeAddPath", input |-> input, cwd |-> cwd,
                result |-> normalizeAddPath(input, cwd, ctx.targetRoot)])

SuffixCall ==
    \E filename \in SuffixNames, scope \in Scopes :
        Called([op |-> "addScopeSuffix", filename |-> filename, scope |-> scope,
                result |-> addScopeSuffix(filename, scope)])

\* where a listed symlink may resolve to
ListedDests ==
    {OverlayRoot \o "/" \o a \o "/" \o r :
        a \in OverlayAreas,
        r \in {"clank/a.md", "a.md", "agents.md", "init/clank/a.md", "prompts/a.md"}}
    \cup {"/elsewhere/clank/a.md", "/o-backup/global/clank/a.md"}

\* the listed path
ListedPath == "/t/clank/a.md"

\* the filter options of clank files: a scope filter, or --linked-only, or none
FilesOptionSets ==
    {[linkedOnly |-> l, unlinkedOnly |-> FALSE, scopeFilter |-> s] :
        l \in BOOLEAN, s \in Scopes \cup {"null"}}

\* maybeCreateEntry for a symlink under clank/: its LinkState and whether it is listed
ClassifyCall ==
    \E dest \in ListedDests, opts \in FilesOptionSets :
        LET f == BuildFs({}, {[path |-> ListedPath, entry |-> LinkEntry(dest)]})
            entry(link) == [op |-> "files", filePath |-> ListedPath, opts |-> opts,
                            link |-> link, listed |-> passesLinkFilter(link, opts)]
        IN  /\ query.op = "none"
            /\ fs = EmptyFs
            /\ fs' = f
            /\ query' = entry(classifyLink(f, ListedPath, ctx.overlayRoot, ctx))
            /\ UNCHANGED <<ctx, tracked, exclude, hist, created, report>>

\* the longest configured preference list of agents
MaxPreferences == 2

\* the names a preference list may hold: the three agents and an unknown one
PreferenceNames == {"agents", "claude", "gemini", "codex"}

Preferences == UNION {[1..n -> PreferenceNames] : n \in 0..MaxPreferences}

\* the directories, relative to the target root, that hold the aliases
AliasDirs == {".", "packages/foo"}

\* the aliases present in the directory, in the order in which the walk meets them
AliasOrders ==
    {a \in UNION {[1..n -> Range(agentFiles)] : n \in 1..Len(agentFiles)} :
        \A i, j \in 1..Len(a) : a[i] = a[j] => i = j}

\* the entry of the listing for the path rel below the target root, listed from the root
ListEntry(rel) ==
    [absolutePath |-> Join(TargetRoot, rel), cwdRelativePath |-> rel, targetRelativePath |-> rel]

\* the entries of a walk that meets the aliases of dir and, with other, a note beside them
AliasEntries(dir, aliases, other) ==
    [i \in 1..Len(aliases) |-> ListEntry(Normalize(Join(dir, aliases[i])))]
    \o (IF other THEN <<ListEntry(Normalize(Join3(dir, "clank", "a.md")))>> ELSE <<>>)

DedupeCall ==
    \E dir \in AliasDirs, aliases \in AliasOrders, other \in BOOLEAN,
       preference \in Preferences :
        Called([op |-> "dedupe", dir |-> dir, entries |-> AliasEntries(dir, aliases, other),
                preference |-> preference,
                result |-> dedupeEntries(AliasEntries(dir, aliases, other), preference)])

\* the most entries of a listing whose entries carry their link state
MaxListed == 2

\* the LinkState of a path linked to the overlay file overlayPath of the scope
Linked(overlayPath, scope) == [kind |-> "linked", overlayPath |-> overlayPath, scope |-> scope]

\* an entry of the listing with its link state
LinkedEntry(rel, link) ==
    [absolutePath |-> Join(TargetRoot, rel), cwdRelativePath |-> rel,
     targetRelativePath |-> rel, link |-> link]

\* the entries that collectEntries may hand to dedupe with --hidden: aliases
\* of the root that are real files or links to the agents.md of a scope, the
\* fan-out copies of two prompts, and a prompt of a tool directory of a package
ListedEntries ==
    {LinkedEntry(a, l) :
        a \in {"AGENTS.md", "CLAUDE.md"},
        l \in {Unlinked, Linked("/o/targets/p/agents.md", "project"),
               Linked("/o/global/agents.md", "global")}}
    \cup {LinkedEntry(d \o "/prompts/" \o n, Linked("/o/targets/p/prompts/" \o n, "project")) :
            d \in {".claude", ".gemini"}, n \in {"x.md", "y.md"}}
    \cup {LinkedEntry("packages/foo/.claude/prompts/x.md", Unlinked)}

\* the listings of at most MaxListed entries, no path twice
Listings ==
    {e \in UNION {[1..n -> ListedEntries] : n \in 1..MaxListed} :
        \A i, j \in 1..Len(e) : e[i].absolutePath = e[j].absolutePath => i = j}

\* dedupeEntries on a listing with link states
DedupeListCall ==
    \E entries \in Listings,
       preference \in {<<>>, <<"gemini">>, <<"claude", "gemini">>} :
        Called([op |-> "dedupeList", entries |-> entries, preference |-> preference,
                result |-> dedupeEntries(entries, preference)])

\* where the one symlink of the target tree lies: in a managed directory, at
\* the root or in a package, or outside the managed directories
CleanPaths == {"/t/clank/a.md", "/t/packages/foo/clank/a.md", "/t/docs/a.md"}

\* where it resolves to: a worktree of the project, the project, another project
CleanDests ==
    {Join(Join4(OverlayRoot, "targets", ProjectName, "worktrees"), w) \o "/clank/a.md" :
        w \in WorktreeNames}
    \cup {"/o/targets/p/clank/a.md", "/o/targets/q/worktrees/main/clank/a.md"}

\* cleanStaleWorktreeSymlinks on a target tree with one symlink
CleanCall ==
    \E path \in CleanPaths, dest \in CleanDests :
        /\ query.op = "none"
        /\ fs = EmptyFs
        /\ fs' = cleanStaleWorktreeSymlinks(
                     BuildFs({}, {[path |-> path, entry |-> LinkEntry(dest)]}),
                     ctx.targetRoot, ctx.overlayRoot, ctx)
        /\ query' = [op |-> "cleanStaleWorktreeSymlinks", path |-> path, dest |-> dest]
        /\ UNCHANGED <<ctx, tracked, exclude, hist, created, report>>

NextFn ==
    \/ EncodeCall
    \/ NormalizeCall
    \/ SuffixCall
    \/ ClassifyCall
    \/ DedupeCall
    \/ DedupeListCall
    \/ CleanCall

SpecFn == InitFn /\ [][NextFn]_vars

(***************************************************************************)
(* Properties                                                              *)
(***************************************************************************)

\* p is dir or lies inside it
Inside(p, dir) == p = dir \/ StartsWith(p, dir \o "/")

LastCmd == hist[Len(hist)]

\* the step is a run of the command cmd
Ran(cmd) == Len(hist') = Len(hist) + 1 /\ hist'[Len(hist')].cmd = cmd

\* the step is a run of the command cmd that did not fail
RanOk(cmd) == Ran(cmd) /\ hist'[Len(hist')].ok

AfterLinkOk == Len(hist) > 0 /\ LastCmd = [cmd |-> "link", ok |-> TRUE]

\* the files and links of f below the target root
TargetEntries(f) == {p \in DOMAIN f : StartsWith(p, ctx.targetRoot \o "/") /\ f[p].kind # "dir"}

\* the links of f below the target root that resolve to the overlay file o
LinksTo(f, o) == {p \in TargetEntries(f) : f[p].kind = "link" /\ f[p].dest = o}

\* the files of the overlay of f that overlayToTarget maps, with their mappings
MappedOverlayFiles(f) ==
    LET files == {p \in DOMAIN f : /\ f[p].kind = "file"
                                   /\ \/ StartsWith(p, Join(ctx.overlayRoot, "global") \o "/")
                                      \/ StartsWith(p, overlayProjectDir(ctx.overlayRoot,
                                                          ctx.projectName) \o "/")}
        results == {[overlayPath |-> o, result |-> overlayToTarget(o, ctx)] : o \in files}
    IN  {[overlayPath |-> r.overlayPath, targetPath |-> r.result.targetPath,
          scope |-> r.result.scope] : r \in {x \in results : ~IsNull(x.result)}}

\* the names under which a mapped overlay file is to appear in the target tree
LinkNames(m) ==
    IF Basename(m.targetPath) = "agents.md"
    THEN {Join(Dirname(m.targetPath), a) : a \in Range(agentFiles)}
    ELSE IF getPromptRelPath(m.targetPath) # ""
    THEN {Join4(ctx.targetRoot, d, "prompts", getPromptRelPath(m.targetPath)) :
            d \in Range(managedAgentDirs)}
    ELSE {m.targetPath}

\* C1: round trip: when overlayToTarget(o) returns {p, s}, targetToOverlay(p, s) is o
C1_RoundTrip == query.op = "targetToOverlay" => query.back = query.overlayPath

\* C2: worktree isolation: in the context of worktree Y, overlayToTarget returns
\* null for every path under targets/<project>/worktrees/<X>/ with X # Y
C2_WorktreeIsolation ==
    query.op = "overlayToTarget" =>
        \A X \in WorktreeNames \ {ctx.worktreeName} :
            StartsWith(query.overlayPath,
                       Join3(overlayProjectDir(ctx.overlayRoot, ctx.projectName),
                             "worktrees", X) \o "/")
            => IsNull(query.mapping)

\* C3: overlayToTarget returns null for every path that lies neither inside
\* global/ nor inside targets/<current project>/, and for every path under
\* global/init/; it never returns a target path outside the target root
C3_OnlyOwnOverlay ==
    query.op = "overlayToTarget" =>
        /\ (/\ ~Inside(query.overlayPath, Join(ctx.overlayRoot, "global"))
            /\ ~Inside(query.overlayPath, overlayProjectDir(ctx.overlayRoot, ctx.projectName)))
           => IsNull(query.mapping)
        /\ StartsWith(query.overlayPath, Join(ctx.overlayRoot, "global/init") \o "/")
           => IsNull(query.mapping)
        /\ ~IsNull(query.mapping) => Inside(query.mapping.targetPath, ctx.targetRoot)

\* C4: no run of link (or add, or mv) deletes, or replaces with a symlink, a
\* real file of the target tree that git tracks
C4_TrackedFilesKept ==
    [][(Ran("link") \/ Ran("add") \/ Ran("mv")) =>
          \A p \in {q \in TargetEntries(fs) : fs[q].kind = "file" /\ q \in tracked} :
              p \in DOMAIN fs' /\ fs'[p].kind = "file"]_vars

\* an agent instructions file that is a real file, tracked or not, or a
\* symlink that resolves outside the overlay
OffendingAgentFile(f, p) ==
    /\ p \in TargetEntries(f)
    /\ Basename(p) \in Range(agentFiles)
    /\ \/ f[p].kind = "file"
       \/ f[p].kind = "link" /\ ~Inside(f[p].dest, ctx.overlayRoot)

\* C5: when an agent instructions file anywhere in the target tree is a real
\* file or a symlink that resolves outside the overlay, link fails and changes
\* nothing
C5_LinkRefuses ==
    [][(Ran("link") /\ \E p \in DOMAIN fs : OffendingAgentFile(fs, p)) =>
          ~hist'[Len(hist')].ok /\ fs' = fs]_vars

\* C6: a link that directly follows a successful link, and succeeds itself,
\* leaves the target tree and the overlay as the first left them
C6_LinkIdempotent ==
    [][(AfterLinkOk /\ RanOk("link")) => fs' = fs]_vars

\* the links that the overlay content of f prescribes, as [link, dest], the
\* parent directories being those of the target tree of before
PrescribedLinks(f, before) ==
    LET M == overlayMappings(f, ctx)
        tasks == createLinksTasks(before, regularMappings(M), ctx.targetRoot)
                 \cup createAgentLinksTasks(before, tracked, agentsMappings(M))
                 \cup createPromptLinksTasks(promptsMappings(M), ctx.targetRoot)
    IN  {[link |-> t.link, dest |-> t.dest] : t \in tasks}

\* the links of the target tree of f that resolve into the overlay: [link, dest]
OverlayLinks(f) ==
    {[link |-> p, dest |-> f[p].dest] :
        p \in {q \in TargetEntries(f) : f[q].kind = "link" /\ Inside(f[q].dest, ctx.overlayRoot)}}

\* C7: after a successful link the symlinks of the target tree that resolve
\* into the overlay are exactly the links that mapping the overlay content
\* prescribes: the same link paths, each resolving to an overlay file
\* prescribed for its path; no link of an earlier overlay state is left over
C7_LinkConverges ==
    [][RanOk("link") =>
          LET P == PrescribedLinks(fs', fs)
          IN  /\ OverlayLinks(fs') \subseteq P
              /\ {t.link : t \in P} = {l.link : l \in OverlayLinks(fs')}]_vars

\* the directory of the target tree that is to hold the links of the mapping m,
\* or the managed directory with them, exists in f
ParentExisted(f, m) ==
    LET relPath == Relative(ctx.targetRoot, m.targetPath)
        clankIndex == IndexOf(relPath, "/clank/")
    IN  IF clankIndex # -1
        THEN isDirectory(f, Join(ctx.targetRoot, SliceTo(relPath, clankIndex)))
        ELSE IF Basename(m.targetPath) = "agents.md"
        THEN isDirectory(f, Dirname(m.targetPath))
        ELSE TRUE

\* C8: after a successful link every mapped overlay file whose target parent
\* directory exists is reachable in the target: an agents.md through every
\* alias, a prompt file through every tool prompts directory, any other file
\* through exactly one link
C8_LinkComplete ==
    [][RanOk("link") =>
          \A m \in {n \in MappedOverlayFiles(fs') : ParentExisted(fs, n)} :
              IF Basename(m.targetPath) = "agents.md" \/ getPromptRelPath(m.targetPath) # ""
              THEN LinkNames(m) \subseteq LinksTo(fs', m.overlayPath)
              ELSE Cardinality(LinksTo(fs', m.overlayPath)) = 1]_vars

\* the name with the scope suffix
Suffixed(name, scope) == Join(Dirname(name), addScopeSuffix(Basename(name), scope))

\* C9: when overlay files of two or more scopes map to the same target path,
\* link creates one link per scope, the name of each carrying its scope suffix
\* and each resolving to the overlay file of its scope; a file whose target
\* path a single scope claims is linked at the unsuffixed name
C9_ScopeSuffixes ==
    [][RanOk("link") =>
          LET M == {n \in MappedOverlayFiles(fs') : ParentExisted(fs, n)}
          IN  \A m \in M :
                LET scopes == {n.scope : n \in {x \in M : x.targetPath = m.targetPath}}
                IN  \A name \in LinkNames(m) :
                      IF Cardinality(scopes) >= 2
                      THEN Suffixed(name, m.scope) \in LinksTo(fs', m.overlayPath)
                      ELSE name \in LinksTo(fs', m.overlayPath)]_vars

\* the scope of the overlay file that the link p resolves to
LinkScope(f, p) == overlayToTarget(f[p].dest, ctx).scope

\* C10: a check that directly follows a successful link reports none of the
\* links that the link created as unadded (outside the overlay, wrongly
\* mapped) or stale, scope-suffixed links included, and
\* reports no agent link created for a global or worktree agents.md as outdated
C10_CheckAfterLinkClean ==
    (/\ Len(hist) >= 2
     /\ LastCmd.cmd = "check"
     /\ hist[Len(hist) - 1] = [cmd |-> "link", ok |-> TRUE])
    => /\ \A u \in report.unadded : u.targetPath \notin created
       /\ \A p \in report.agents.staleSymlinks : p \notin created
       /\ \A p \in report.agents.outdatedSymlinks :
             p \in created => LinkScope(fs, p) \notin {"global", "worktree"}

\* the files and directories of f inside the overlay
OverlayPaths(f) == {p \in DOMAIN f : Inside(p, ctx.overlayRoot)}

\* C11 as stated: link never creates, modifies, moves or deletes a file or a
\* directory inside the overlay
C11_LinkLeavesOverlay ==
    [][Ran("link") =>
          /\ OverlayPaths(fs') = OverlayPaths(fs)
          /\ \A p \in OverlayPaths(fs) : fs'[p] = fs[p]]_vars

\* C11 amended: link never modifies, moves or deletes a file or a directory
\* that the overlay holds; what it adds to the overlay is the project's
\* directory, the project's claude/settings.json when there is none, and, when
\* the directory of the worktree does not exist yet, that directory with the
\* copies of the templates of global/init
C11_LinkOnlyAddsToOverlay ==
    [][Ran("link") =>
          /\ \A p \in OverlayPaths(fs) : p \in DOMAIN fs' /\ fs'[p] = fs[p]
          /\ \A p \in OverlayPaths(fs') \ OverlayPaths(fs) :
                \/ p \in Ancestors(Join(overlayProjectDir(ctx.overlayRoot, ctx.projectName),
                                        "claude/settings.json"))
                \/ p \in Ancestors(overlayWorktreeDir(ctx.overlayRoot, ctx))
                \/ /\ Inside(p, overlayWorktreeDir(ctx.overlayRoot, ctx))
                   /\ ~fileExists(fs, overlayWorktreeDir(ctx.overlayRoot, ctx))]_vars

\* a link has copied a template into the overlay and created the settings file
C11_OverlayGrown ==
    /\ AfterLinkOk
    /\ fileExists(fs, Join(overlayWorktreeDir(ctx.overlayRoot, ctx), "plan.md"))
    /\ fs[Join(overlayProjectDir(ctx.overlayRoot, ctx.projectName),
               "claude/settings.json")].data = "{}"

\* the directory of the target tree that is to hold the links of the mapping m
TargetParent(m) ==
    LET relPath == Relative(ctx.targetRoot, m.targetPath)
        clankIndex == IndexOf(relPath, "/clank/")
    IN  IF clankIndex # -1 THEN Join(ctx.targetRoot, SliceTo(relPath, clankIndex))
        ELSE IF Basename(m.targetPath) = "agents.md" THEN Dirname(m.targetPath)
        ELSE ctx.targetRoot

\* C12: when the target subdirectory that is to hold a link does not exist,
\* link creates neither that link nor the directory, and completes successfully
C12_MissingParentSkipped ==
    [][Ran("link") =>
          \A m \in {n \in MappedOverlayFiles(fs') : ~ParentExisted(fs, n)} :
              \/ fs' = fs
              \/ /\ hist'[Len(hist')].ok
                 /\ ~fileExists(fs', TargetParent(m))
                 /\ LinkNames(m) \cap DOMAIN fs' = {}]_vars

\* C13: every overlay file whose link a link skips because its target
\* subdirectory is missing, whatever its scope, is reported by findOrphans on
\* the state that the link leaves
C13_SkippedAreOrphans ==
    [][RanOk("link") =>
          \A m \in {n \in MappedOverlayFiles(fs') :
                      /\ ~fileExists(fs', TargetParent(n))
                      /\ LinkNames(n) \cap DOMAIN fs' = {}} :
              \E r \in findOrphans(fs', ctx) : r.overlayPath = m.overlayPath]_vars

\* the files of the project's subtree of the overlay that belong to this worktree
ProjectSubtreeFiles(f) ==
    {p \in DOMAIN f :
        /\ f[p].kind = "file"
        /\ StartsWith(p, overlayProjectDir(ctx.overlayRoot, ctx.projectName) \o "/")
        /\ StartsWith(p, Join(overlayProjectDir(ctx.overlayRoot, ctx.projectName),
                              "worktrees") \o "/")
           => StartsWith(p, overlayWorktreeDir(ctx.overlayRoot, ctx) \o "/")}

\* the path of an overlay file below the directory of its scope
ScopeRelative(p) ==
    IF StartsWith(p, overlayWorktreeDir(ctx.overlayRoot, ctx) \o "/")
    THEN Relative(overlayWorktreeDir(ctx.overlayRoot, ctx), p)
    ELSE Relative(overlayProjectDir(ctx.overlayRoot, ctx.projectName), p)

\* the <sub> of a path in a per-subdirectory pocket: <sub>/clank/...,
\* <sub>/claude/..., <sub>/gemini/..., <sub>/prompts/... or <sub>/agents.md
PocketSubs(rel) ==
    {SliceTo(rel, i) : i \in {j \in 1..Len(rel) :
        \/ \E d \in Range(managedDirs) : StartsWith(Slice(rel, j), "/" \o d \o "/")
        \/ Slice(rel, j) = "/agents.md"}}

\* C14: findOrphans reports an overlay file of the project's subtree if and
\* only if the file lies in a per-subdirectory pocket of <sub> and
\* <targetRoot>/<sub> does not exist; the directory it reports is <sub>
C14_OrphansExactly ==
    \A p \in ProjectSubtreeFiles(fs) :
        /\ (\E r \in findOrphans(fs, ctx) : r.overlayPath = p)
           <=> (\E sub \in PocketSubs(ScopeRelative(p)) :
                   ~fileExists(fs, Join(ctx.targetRoot, sub)))
        /\ \A r \in findOrphans(fs, ctx) :
              r.overlayPath = p => r.expectedTargetDir \in PocketSubs(ScopeRelative(p))

\* the state of a target path as the four states are defined
ManagedState(f, p) ==
    IF ~(p \in DOMAIN f /\ f[p].kind = "link") THEN "unadded"
    ELSE IF ~Inside(f[p].dest, ctx.overlayRoot) THEN "outside-overlay"
    ELSE IF LET m == overlayToTarget(f[p].dest, ctx)
            IN  /\ ~IsNull(m)
                /\ \/ m.targetPath = p
                   \/ /\ getPromptRelPath(m.targetPath) # ""
                      /\ getPromptRelPath(m.targetPath) = getPromptRelPath(p)
         THEN "valid"
    ELSE "wrong-mapping"

\* C15: verifyManaged classifies a target path as unadded iff no symlink is
\* there, outside-overlay iff the symlink resolves outside the overlay root
\* directory, valid iff it resolves to an overlay file that maps back to this
\* path (or to the same prompt path under a sibling tool), wrong-mapping otherwise
C15_VerifyManagedStates ==
    \A p \in TargetEntries(fs) \cup {Join(ctx.targetRoot, "clank/none.md")} :
        verifyManaged(fs, p, ctx) = ManagedState(fs, p)

\* more than one of --global, --project, --worktree is set
Conflicting(options) == Cardinality({s \in Scopes : options[s]}) > 1

\* the options with the flag of the scope s alone
OneScope(s) == [NoOptions EXCEPT ![s] = TRUE]

\* the command line of the step, and whether the command succeeded
Cmd == hist'[Len(hist')]

\* the step is the command cmd with one path argument
Ran1(cmd) == Ran(cmd) /\ Len(Cmd.filePaths) = 1

\* the files and links of f, the directories left out
Files(f) == [p \in {q \in DOMAIN f : f[q].kind # "dir"} |-> f[p]]

\* C16: add, rm and mv reject an invocation that sets more than one of
\* --global, --project, --worktree: the command fails and changes nothing in
\* the overlay or in the target tree
C16_ConflictingScopesRejected ==
    [][((Ran("add") \/ Ran("rm") \/ Ran("mv")) /\ Conflicting(Cmd.options))
          => ~Cmd.ok /\ fs' = fs]_vars

\* the directory of the overlay that holds the files of the scope s
ScopeBase(s) ==
    IF s = "global" THEN Join(ctx.overlayRoot, "global")
    ELSE IF s = "worktree" THEN overlayWorktreeDir(ctx.overlayRoot, ctx)
    ELSE overlayProjectDir(ctx.overlayRoot, ctx.projectName)

\* C17: adding one of the aliases CLAUDE.md, AGENTS.md, GEMINI.md from a
\* directory d under a scope stores exactly one overlay file
\* <scope base>/<d>/agents.md and leaves in d a symlink for each alias, all
\* resolving to that file (an alias that is a file tracked by git is let be)
C17_AddAgentAlias ==
    [][(/\ Ran1("add")
        /\ Cmd.ok
        /\ Basename(Cmd.filePaths[1]) \in Range(agentFiles)
        /\ \E s \in Scopes : Cmd.options = OneScope(s))
       => LET s == CHOOSE s \in Scopes : Cmd.options = OneScope(s)
              d == Dirname(Cmd.filePaths[1])
              ov == Join3(ScopeBase(s), d, "agents.md")
          IN  /\ fileExists(fs', ov)
              /\ DOMAIN Files(fs') \cap (OverlayPaths(fs') \ OverlayPaths(fs)) \subseteq {ov}
              /\ \A n \in Range(agentFiles) :
                    LET p == Join3(ProcessCwd, d, n)
                    IN  \/ fileExists(fs, p) /\ ~isSymlink(fs, p) /\ p \in tracked
                        \/ fileExists(fs', p) /\ fs'[p] = LinkEntry(ov)]_vars

\* the destination of mv exists in the overlay: in scope-move mode the path of
\* the file in the destination scope, in rename mode the new name in the scope
\* of the file
DestinationExists(filePaths, options) ==
    LET currentScope == scopeFromSymlink(fs, Join(ProcessCwd, filePaths[1]), ctx)
        dest == IF Len(filePaths) = 1 THEN filePaths[1]
                ELSE Join(Dirname(filePaths[1]), filePaths[2])
        scope == IF Len(filePaths) = 1 THEN resolveScopeFromOptions(options, "require")
                 ELSE currentScope
    IN  /\ currentScope # "null"
        /\ ~Conflicting(options)
        /\ (Len(filePaths) = 1) = (options # NoOptions)
        /\ Len(filePaths) = 1 => scope # currentScope
        /\ fileExists(fs, targetToOverlay(normalizeAddPath(dest, ProcessCwd, ctx.targetRoot),
                                         scope, ctx))

\* C18: mv whose destination already exists in the overlay, in rename mode and
\* in scope-move mode, fails and leaves every overlay file, with its content,
\* and every target symlink unchanged
C18_MoveKeepsDestination ==
    [][(Ran("mv") /\ DestinationExists(Cmd.filePaths, Cmd.options))
          => ~Cmd.ok /\ Files(fs') = Files(fs)]_vars

\* C19: after a successful mv f --<s2> of a managed link f that resolves to an
\* overlay file of another scope, that overlay file is gone, f resolves to a
\* file of the scope s2 with the same content, and so does every target
\* symlink that resolved to the old overlay file
C19_MoveToScope ==
    [][(/\ Ran1("mv")
        /\ Cmd.ok
        /\ \E s2 \in Scopes : Cmd.options = OneScope(s2)
        /\ isSymlink(fs, Join(ProcessCwd, Cmd.filePaths[1]))
        /\ Inside(fs[Join(ProcessCwd, Cmd.filePaths[1])].dest, ctx.overlayRoot)
        /\ fileExists(fs, fs[Join(ProcessCwd, Cmd.filePaths[1])].dest)
        /\ LinkScope(fs, Join(ProcessCwd, Cmd.filePaths[1])) \in Scopes
        /\ Cmd.options # OneScope(LinkScope(fs, Join(ProcessCwd, Cmd.filePaths[1]))))
       => LET f == Join(ProcessCwd, Cmd.filePaths[1])
              s2 == CHOOSE s \in Scopes : Cmd.options = OneScope(s)
          IN  /\ ~fileExists(fs', fs[f].dest)
              /\ isSymlink(fs', f)
              /\ Inside(fs'[f].dest, ScopeBase(s2))
              /\ fileExists(fs', fs'[f].dest)
              /\ fs'[fs'[f].dest] = fs[fs[f].dest]
              /\ \A p \in LinksTo(fs, fs[f].dest) : p \in LinksTo(fs', fs'[f].dest)]_vars

\* C20: after a successful rm f the overlay file of f is gone and no symlink
\* of the target tree resolves to the removed overlay path
C20_RmLeavesNoLink ==
    [][(Ran("rm") /\ Cmd.ok /\ ~Conflicting(Cmd.options))
          => /\ OverlayPaths(fs) \ OverlayPaths(fs') # {}
             /\ \A ov \in OverlayPaths(fs) \ OverlayPaths(fs') : LinksTo(fs', ov) = {}]_vars

\* C21: when rm fails for one of its path arguments, the invocation has
\* removed nothing: no overlay file and no target symlink of any argument
C21_FailedRmRemovesNothing ==
    [][(Ran("rm") /\ ~Cmd.ok) => Files(fs') = Files(fs)]_vars

\* the scope whose directory of the overlay holds the path dest, "null" for
\* a path outside the three scope directories of the context
ScopeOfPath(dest) ==
    IF Inside(dest, ScopeBase("global")) THEN "global"
    ELSE IF ctx.isWorktree /\ Inside(dest, ScopeBase("worktree")) THEN "worktree"
    ELSE IF Inside(dest, ScopeBase("project")) THEN "project"
    ELSE "null"

\* the path argument of the step's add is a link into the overlay at a scope
\* other than the one the options ask for
AddAcrossScopes ==
    LET barePath == Join(ProcessCwd, Cmd.filePaths[1])
    IN  /\ Ran1("add")
        /\ ~Conflicting(Cmd.options)
        /\ isSymlink(fs, barePath)
        /\ ScopeOfPath(fs[barePath].dest) \notin
               {"null", resolveScopeFromOptions(Cmd.options, "project")}

\* C22: add of a path that is a symlink into the overlay at a scope other
\* than the requested one fails and changes nothing in the overlay or in the
\* target tree
C22_AddAtOtherScopeFails ==
    [][AddAcrossScopes => (~Cmd.ok /\ fs' = fs)]_vars

\* an add of a link of the project scope with --global has been refused
C22_AddRefused ==
    /\ Len(hist) = 1
    /\ hist[1] = [cmd |-> "add", ok |-> FALSE, filePaths |-> <<"CLAUDE.md">>,
                  options |-> OneScope("global")]
    /\ isSymlink(fs, "/t/CLAUDE.md")
    /\ fs["/t/CLAUDE.md"].dest = "/o/targets/p/agents.md"
    /\ ~fileExists(fs, "/o/global/agents.md")

\* the symlinks of the target tree, .git and node_modules left out, that
\* resolve into the overlay
OverlayLinksOf(f) ==
    {p \in walkDirectory(f, ctx.targetRoot, DefaultSkipDirs) :
        isSymlink(f, p) /\ Inside(resolveSymlinkTarget(f, p), ctx.overlayRoot)}

\* C23: after unlink no symlink under the target root, outside .git and
\* node_modules, resolves into the overlay, and unlink removes nothing else:
\* real files, symlinks that resolve outside the overlay and all of the
\* overlay are unchanged
C23_UnlinkRemovesOverlayLinksOnly ==
    [][Ran("unlink")
       => /\ OverlayLinksOf(fs') = {}
          /\ DOMAIN fs' \subseteq DOMAIN fs
          /\ \A p \in DOMAIN fs \ OverlayLinksOf(fs) :
                 p \in DOMAIN fs' /\ fs'[p] = fs[p]]_vars

\* git's reading of an exclude entry with no inner slash: "d/" matches what
\* lies in a directory named d at any depth, "n" matches every path with a
\* component named n
Excluded(p, entries) ==
    LET parts == Split(Relative(ctx.targetRoot, p))
    IN  \E e \in entries :
            IF EndsWith(e, "/")
            THEN \E i \in 1..(Len(parts) - 1) : parts[i] \o "/" = e
            ELSE \E i \in 1..Len(parts) : parts[i] = e

\* C24: after a link that completes, every symlink that it created in the
\* target tree is matched by an entry of the clank section of
\* .git/info/exclude, so that git reports none of them as untracked, also
\* when a managed directory holds tracked files
C24_CreatedLinksExcluded ==
    [][RanOk("link") => \A p \in created' \ tracked : Excluded(p, exclude')]_vars

\* the five rules of C25 in their stated order, for the scope-relative
\* remainder rel of an overlay path; a component clank is a directory of the path
DecodeByRules(rel, scope) ==
    IF Basename(rel) = "agents.md"
    THEN [targetPath |-> Join(ctx.targetRoot, rel), scope |-> scope]
    ELSE IF StartsWith(rel, "prompts/")
    THEN [targetPath |-> Join3(ctx.targetRoot, ".claude/prompts", Slice(rel, Len("prompts/"))),
          scope |-> scope]
    ELSE IF StartsWith(rel, "claude/")
    THEN [targetPath |-> Join3(ctx.targetRoot, ".claude", Slice(rel, Len("claude/"))),
          scope |-> scope]
    ELSE IF StartsWith(rel, "gemini/")
    THEN [targetPath |-> Join3(ctx.targetRoot, ".gemini", Slice(rel, Len("gemini/"))),
          scope |-> scope]
    ELSE IF \E i \in 1..(Len(Split(rel)) - 1) : Split(rel)[i] = "clank"
    THEN [targetPath |-> Join(ctx.targetRoot, rel), scope |-> scope]
    ELSE NullMapping

\* the queried overlay path lies in the directory of the scope, which decodes
\* its remainder: not a template of global/init, and for the project scope
\* not a file of a worktree
DecodedAt(scope) ==
    /\ query.op = "overlayToTarget"
    /\ StartsWith(query.overlayPath, ScopeBase(scope) \o "/")
    /\ scope = "global" =>
           ~StartsWith(Relative(ScopeBase(scope), query.overlayPath), "init/")
    /\ scope = "project" =>
           ~StartsWith(Relative(ScopeBase(scope), query.overlayPath), "worktrees/")

\* C25: overlayToTarget decodes the scope-relative remainder of an overlay
\* path by the first matching rule in the order: (1) the file name is
\* agents.md: same relative path; (2) it starts with prompts/:
\* .claude/prompts/<rest>; (3) it starts with claude/ or gemini/: .claude/<rest>
\* or .gemini/<rest>; (4) it has a path component clank: same relative path;
\* (5) otherwise null
C25_DecodeRuleOrder ==
    \A scope \in Scopes :
        DecodedAt(scope) =>
            query.mapping = DecodeByRules(Relative(ScopeBase(scope), query.overlayPath), scope)

\* the components of the path of the query relative to the target root
QueryParts == Split(Relative(ctx.targetRoot, query.targetPath))

\* the path of the query has a directory named clank
HasClankDir == \E i \in 1..(Len(QueryParts) - 1) : QueryParts[i] = "clank"

\* C26: targetToOverlay is defined for every target path under the target
\* root and every scope: a target-relative path with a component clank maps to
\* <scope base>/<same relative path>, and a path with no such component that
\* is not an agents.md and not under .claude/ or .gemini/ maps to
\* <scope base>/clank/<relative path>
C26_EncodeByComponents ==
    query.op = "targetToOverlay" =>
        LET relPath == Relative(ctx.targetRoot, query.targetPath)
        IN  /\ HasClankDir => query.result = Join(ScopeBase(query.scope), relPath)
            /\ (/\ \A i \in 1..Len(QueryParts) : QueryParts[i] # "clank"
                /\ Basename(relPath) # "agents.md"
                /\ QueryParts[1] \notin {".claude", ".gemini"})
               => query.result = Join3(ScopeBase(query.scope), "clank", relPath)

\* the components of the working directory of the query below the target root
CwdParts ==
    IF query.cwd = ctx.targetRoot THEN <<>>
    ELSE Split(Relative(ctx.targetRoot, query.cwd))

\* C27: normalizeAddPath never double-prefixes: for a plain file name and a
\* cwd inside a clank/ directory it returns <cwd>/<name>, for a cwd inside a
\* tool directory (.claude/ or .gemini/, at any depth) it returns <cwd>/<name>
\* with no clank/ inserted, and from any other cwd <cwd>/clank/<name>
C27_NoDoublePrefix ==
    (/\ query.op = "normalizeAddPath"
     /\ ~Includes(query.input, "/")
     /\ ~isAgentFile(query.input))
    => IF \E i \in 1..Len(CwdParts) : CwdParts[i] = "clank"
       THEN query.result = Join(query.cwd, query.input)
       ELSE IF Len(CwdParts) > 0 /\ CwdParts[1] \in {".claude", ".gemini"}
       THEN query.result = Join(query.cwd, query.input)
       ELSE query.result = Join3(query.cwd, "clank", query.input)

\* ext is the file extension of name: what begins at its last dot, and
\* nothing when the name has no dot
IsExtension(ext, name) ==
    /\ EndsWith(name, ext)
    /\ IF Includes(name, ".")
       THEN StartsWith(ext, ".") /\ ~Includes(Slice(ext, 1), ".")
       ELSE ext = ""

\* C28: addScopeSuffix(name, global) is name for every name, and
\* addScopeSuffix(name, project) and addScopeSuffix(name, worktree) are name
\* with -project or -worktree inserted immediately before the file extension
C28_SuffixBeforeExtension ==
    query.op = "addScopeSuffix" =>
        IF query.scope = "global" THEN query.result = query.filename
        ELSE \E k \in 0..Len(query.filename) :
                 /\ IsExtension(Slice(query.filename, k), query.filename)
                 /\ query.result = SliceTo(query.filename, k) \o "-" \o query.scope
                                   \o Slice(query.filename, k)

\* a name with two dots has been suffixed for the project scope
C28_Suffixed ==
    /\ query.op = "addScopeSuffix"
    /\ query.filename = "a.tar.gz"
    /\ query.scope = "project"
    /\ query.result = "a.tar-project.gz"

\* the scope that the listing attaches to the listed path, "null" for none
ListedScope == IF query.link.kind = "linked" THEN query.link.scope ELSE "null"

\* C29: for every symlink of the target tree the scope that the files listing
\* attaches to it is the scope that scopeFromSymlink obtains by resolving the
\* link and mapping it back through overlayToTarget; a link that resolves
\* outside the overlay, or to an overlay path that does not map in the
\* current context, has scope null and is listed under no scope filter
C29_ListingScopeIsMappedScope ==
    query.op = "files" =>
        /\ ListedScope = scopeFromSymlink(fs, query.filePath, ctx)
        /\ (\/ ~Inside(fs[query.filePath].dest, ctx.overlayRoot)
            \/ IsNull(overlayToTarget(fs[query.filePath].dest, ctx)))
           => /\ ListedScope = "null"
              /\ query.opts.scopeFilter # "null" => ~query.listed

\* the names of the alias entries of a list of entries
AliasNames(entries) ==
    {Basename(entries[i].targetRelativePath) :
        i \in {j \in 1..Len(entries) :
                  Basename(entries[j].targetRelativePath) \in Range(agentFiles)}}

\* the alias that a name of the preference list stands for, "" for an unknown name
PreferredAlias(name) ==
    IF name = "agents" THEN "AGENTS.md"
    ELSE IF name = "claude" THEN "CLAUDE.md"
    ELSE IF name = "gemini" THEN "GEMINI.md"
    ELSE ""

\* the alias C30 keeps: the first of the preference order among those
\* present, else the lexicographically first of those present
KeptAlias(present, preference) ==
    LET inOrder == {i \in 1..Len(preference) : PreferredAlias(preference[i]) \in present}
        byName == <<"AGENTS.md", "CLAUDE.md", "GEMINI.md">>
    IN  IF inOrder # {} THEN PreferredAlias(preference[Min(inOrder)])
        ELSE byName[Min({i \in 1..3 : byName[i] \in present})]

\* C30: of N >= 1 alias entries (AGENTS.md, CLAUDE.md, GEMINI.md) in one
\* directory dedupe returns exactly one: the alias that comes first in the
\* configured preference order among those present, or, when none of those
\* present is in the preference order, the lexicographically first
C30_DedupeKeepsPreferredAlias ==
    query.op = "dedupe" =>
        /\ Cardinality({i \in 1..Len(query.result) :
                           Basename(query.result[i].targetRelativePath) \in Range(agentFiles)}) = 1
        /\ AliasNames(query.result)
               = {KeptAlias(AliasNames(query.entries), query.preference)}
        /\ \A i \in 1..Len(query.result) : \E j \in 1..Len(query.entries) :
               query.result[i] = query.entries[j]

\* dedupe has kept AGENTS.md of the aliases AGENTS.md and GEMINI.md under
\* the preference list claude, which names neither
C30_FallbackTaken ==
    /\ query.op = "dedupe"
    /\ query.preference = <<"claude">>
    /\ AliasNames(query.entries) = {"AGENTS.md", "GEMINI.md"}
    /\ AliasNames(query.result) = {"AGENTS.md"}

\* the entries of a listing, as a set
EntrySet(entries) == {entries[i] : i \in 1..Len(entries)}

\* e is an instruction-file alias
IsAlias(e) == Basename(e.targetRelativePath) \in Range(agentFiles)

\* the aliases e and d lie in one directory and resolve to the same overlay file
SameInstructions(e, d) ==
    /\ Dirname(e.absolutePath) = Dirname(d.absolutePath)
    /\ e.link.kind = "linked"
    /\ d.link.kind = "linked"
    /\ e.link.overlayPath = d.link.overlayPath

\* C31: dedupe collapses the instruction-file aliases of one directory only
\* when they resolve to the same overlay file: an alias that is an unlinked
\* real file, or that is linked to another overlay file than the other
\* aliases of its directory, stays in the listing
C31_OnlySameTargetCollapsed ==
    query.op = "dedupeList" =>
        \A e \in EntrySet(query.entries) :
            (/\ IsAlias(e)
             /\ \A d \in EntrySet(query.entries) \ {e} : IsAlias(d) => ~SameInstructions(e, d))
            => e \in EntrySet(query.result)

\* the tool directory whose prompts/ holds the entry, "" for an entry that is no prompt
PromptTool(e) ==
    IF Includes(e.absolutePath, "/.claude/prompts/") THEN ".claude"
    ELSE IF Includes(e.absolutePath, "/.gemini/prompts/") THEN ".gemini"
    ELSE ""

\* the directory that holds the tool directory of the prompt e
PromptRoot(e) ==
    SliceTo(e.absolutePath, IndexOf(e.absolutePath, "/" \o PromptTool(e) \o "/prompts/"))

\* the path of the prompt e below prompts/
PromptName(e) ==
    Slice(e.absolutePath,
          IndexOf(e.absolutePath, "/" \o PromptTool(e) \o "/prompts/")
          + Len("/" \o PromptTool(e) \o "/prompts/"))

\* the fan-out copies of the prompt e in a listing, e included
FanOut(e, entries) ==
    {d \in EntrySet(entries) :
        /\ PromptTool(d) # ""
        /\ PromptRoot(d) = PromptRoot(e)
        /\ PromptName(d) = PromptName(e)}

\* the tool directory C32 keeps of those that hold a copy: the first of the
\* preference order, else the lexicographically first
KeptTool(tools, preference) ==
    LET dirOf(name) == IF name = "claude" THEN ".claude"
                       ELSE IF name = "gemini" THEN ".gemini" ELSE ""
        inOrder == {i \in 1..Len(preference) : dirOf(preference[i]) \in tools}
    IN  IF inOrder # {} THEN dirOf(preference[Min(inOrder)])
        ELSE IF ".claude" \in tools THEN ".claude" ELSE ".gemini"

\* C32: of the fan-out copies of one prompt (the same prompt-relative path
\* under .claude/prompts/ and .gemini/prompts/ of the same root) dedupe keeps
\* exactly one, the copy of the tool directory that comes first in the
\* preference order, else the lexicographically first; two prompt files that
\* are not fan-out copies of one another are both kept
C32_OnePerFanOut ==
    query.op = "dedupeList" =>
        \A e \in {d \in EntrySet(query.entries) : PromptTool(d) # ""} :
            \E k \in FanOut(e, query.entries) :
                /\ FanOut(e, query.entries) \cap EntrySet(query.result) = {k}
                /\ PromptTool(k) = KeptTool({PromptTool(d) : d \in FanOut(e, query.entries)},
                                            query.preference)

\* C33: add never loses file content: for every real file of the target
\* tree that add replaces with a symlink, the content the file had before add
\* is after add the content of the overlay file the new symlink resolves to,
\* also when the overlay already held a file at the computed overlay path
C33_AddKeepsContent ==
    [][Ran("add")
       => \A p \in {q \in DOMAIN fs : Inside(q, ctx.targetRoot) /\ fs[q].kind = "file"} :
              (p \in DOMAIN fs' /\ fs'[p].kind = "link")
              => /\ fs'[p].dest \in DOMAIN fs'
                 /\ fs'[fs'[p].dest].kind = "file"
                 /\ fs'[fs'[p].dest].data = fs[p].data]_vars

\* C34: within one link run the symlink creations that run concurrently never
\* target the same link path, so that the resulting links do not depend on
\* the interleaving and no creation fails because the path already exists:
\* a run that can succeed succeeds under every interleaving, with one result
C34_LinkInterleavingFree ==
    [][Ran("link")
       => \A r1, r2 \in linkCommand(fs, tracked, ctx) :
              r1.ok => (r2.ok /\ r2.fs = r1.fs)]_vars

\* the settings.json of the project in the overlay and in the target tree
OverlaySettings ==
    Join3(overlayProjectDir(ctx.overlayRoot, ctx.projectName), "claude", "settings.json")

TargetSettings == Join(ctx.targetRoot, ".claude/settings.json")

\* C35: when .claude/settings.json is a real file of the target tree and
\* targets/<project>/claude/settings.json exists in the overlay, link fails
\* with the settings conflict and the real settings.json of the target is
\* still in place with its content
C35_SettingsConflictKeepsFile ==
    [][(/\ Ran("link")
        /\ fileExists(fs, TargetSettings)
        /\ fs[TargetSettings].kind = "file"
        /\ fileExists(fs, OverlaySettings))
       => /\ ~hist'[Len(hist')].ok
          /\ TargetSettings \in DOMAIN fs'
          /\ fs'[TargetSettings] = fs[TargetSettings]]_vars

\* the scopes that add accepts in the context
ValidScopes == IF ctx.isWorktree THEN Scopes ELSE Scopes \ {"worktree"}

\* the path at which link puts the file stored for p: p itself, and for a
\* prompt under .gemini/prompts/ the same prompt under .claude/prompts/
LinkedBackAt(p) ==
    IF StartsWith(p, Join(ctx.targetRoot, ".gemini/prompts") \o "/")
    THEN Join3(ctx.targetRoot, ".claude/prompts",
               Relative(Join(ctx.targetRoot, ".gemini/prompts"), p))
    ELSE p

\* C36: every file stored by add is linked back to the same place by a later
\* link: for every path p returned by normalizeAddPath and every scope s valid
\* in the context, overlayToTarget(targetToOverlay(p, s)) is {p, s}
C36_AddedPathsRoundTrip ==
    query.op = "normalizeAddPath" =>
        \A s \in ValidScopes :
            overlayToTarget(targetToOverlay(query.result, s, ctx), ctx)
                = [targetPath |-> LinkedBackAt(query.result), scope |-> s]

\* C37: rm unlinks a target symlink only if the symlink resolves to the
\* overlay file being removed: when rm has an explicit scope flag and the link
\* at the target path resolves to the same-named file of another scope, that
\* link and the overlay file of the other scope are left in place
C37_RmUnlinksOwnLinksOnly ==
    [][Ran("rm")
       => \A p \in {q \in DOMAIN fs : Inside(q, ctx.targetRoot) /\ isSymlink(fs, q)} :
              \/ p \in DOMAIN fs' /\ fs'[p] = fs[p]
              \/ fs[p].dest \in DOMAIN fs /\ fs[p].dest \notin DOMAIN fs']_vars

\* the symlinks of f that resolve to neither the overlay root nor a path inside it
OutsideLinks(f) ==
    {p \in DOMAIN f : isSymlink(f, p) /\ ~Inside(resolveSymlinkTarget(f, p), ctx.overlayRoot)}

\* C38: a symlink counts as pointing into the overlay (isSymlinkToOverlay)
\* if and only if its resolved target is the overlay root or lies inside it; a
\* link into a sibling directory whose name extends the name of the overlay
\* root does not count, so that unlink never removes or retargets such a link
C38_SiblingLinksUntouched ==
    [][Ran("unlink")
       => /\ \A p \in {q \in DOMAIN fs : isSymlink(fs, q)} :
                 isSymlinkToOverlay(fs, p, ctx.overlayRoot)
                     <=> Inside(resolveSymlinkTarget(fs, p), ctx.overlayRoot)
          /\ \A p \in OutsideLinks(fs) : p \in DOMAIN fs' /\ fs'[p] = fs[p]]_vars

\* the directory that holds the worktrees of the project in the overlay
WorktreesDir == Join(overlayProjectDir(ctx.overlayRoot, ctx.projectName), "worktrees")

\* C39: cleanStaleWorktreeSymlinks removes a symlink if and only if it lies in
\* a managed directory and resolves under targets/<project>/worktrees/<W>/ for
\* a worktree W other than the current one; it never removes a link that
\* resolves into the overlay directory of the current worktree, also when the
\* name of the current branch contains "/"
C39_OnlyOtherWorktreesCleaned ==
    query.op = "cleanStaleWorktreeSymlinks" =>
        (query.path \notin DOMAIN fs
         <=> /\ isInManagedDir(Relative(ctx.targetRoot, query.path))
             /\ StartsWith(query.dest, WorktreesDir \o "/")
             /\ ~Inside(query.dest, ScopeBase("worktree")))

=============================================================================
